---------------------------- MODULE Spec2Model ----------------------------
(***************************************************************************)
(* A model of the NVD reconciliation engine of this repository:            *)
(*   cve.py    CVEDB: transactional CVE store, feed fetcher, ingestion     *)
(*   cpe.py    CPEDB: CPE dictionary store                                 *)
(*   vulnid.py VulnerabilityDB: the combined revision                      *)
(*                                                                         *)
(* Python values are modelled as follows.  A string that the code only     *)
(* compares is a TLA+ string.  A string that the code slices or scans is   *)
(* a sequence of one-character strings (a CVE name) or of words (a         *)
(* summary).  SQL NULL / Python None is the string "NULL" for scalar       *)
(* columns and the empty sequence for a text that is scanned.  A table is  *)
(* the set of its rows, each row a record.                                 *)
(***************************************************************************)
EXTENDS Integers, Sequences, FiniteSets, TLC

\* ------------------------------------------------------------------ bounds

\* Number of feed files update() is seen to load, over all its calls: two
\* whole passes over the feed files.
MaxLoads == 8
\* Number of disturbances: somebody puts a file into the working directory,
\* or the server gives an answer that makes a load fail (an error status,
\* a body that breaks off, a document that cannot be ingested).
MaxIncidents == 1

\* Threads that use one store object.
NumThreads == 2

\* Calls of transactional methods, over all threads.
MaxCalls == 3

\* Transactional calls a thread has open at a time, one inside the other.
MaxDepth == 2

\* Calls of CPEDB() and of CPEDB.update() together.
MaxUpdates == 3

\* Length of the texts the name functions are given, but for the prefix
\* of a name and the fields appended to reach a number of fields.
MaxLen == 2

\* Number of fields "*" appended to a name.
MaxPad == 11

\* Connections the listener of a forwarder accepts.
MaxConns == 2

\* Bytes the ends of a forwarded connection send, all together.
MaxBytes == 2

\* ----------------------------------------------------------------- helpers

NULL == "NULL"

SetMax(S) == CHOOSE m \in S : \A x \in S : x <= m

\* str.startswith
StartsWith(s, p) == Len(s) >= Len(p) /\ SubSeq(s, 1, Len(p)) = p

Digits == {"0", "1", "2", "3", "4", "5", "6", "7", "8", "9"}

DigitVal(c) ==
  CASE c = "0" -> 0 [] c = "1" -> 1 [] c = "2" -> 2 [] c = "3" -> 3
    [] c = "4" -> 4 [] c = "5" -> 5 [] c = "6" -> 6 [] c = "7" -> 7
    [] c = "8" -> 8 [] c = "9" -> 9

\* int(s) for a string of decimal digits (int() raises on anything else).
IsInt(s) == Len(s) > 0 /\ \A i \in 1..Len(s) : s[i] \in Digits

RECURSIVE ToInt(_)
ToInt(s) ==
  IF Len(s) = 0 THEN 0
  ELSE 10 * ToInt(SubSeq(s, 1, Len(s) - 1)) + DigitVal(s[Len(s)])

\* --------------------------------------------------------- feed inventory

\* cve.py:68-76.  The yearly files are cut to the first year; the two
\* incremental files follow it, in the order of the source.
CVE_XML_FILES ==
  << "nvdcve-2.0-2002.xml", "nvdcve-2.0-modified.xml", "nvdcve-2.0-recent.xml" >>

VENDOR_XML_FILE == "vendorstatements.xml"

\* update() walks CVE_XML_FILES and then the vendor statements.
FeedOrder == Append(CVE_XML_FILES, VENDOR_XML_FILE)

FeedFiles == {FeedOrder[i] : i \in 1..Len(FeedOrder)}

\* The text a summary must start with to mark a withdrawn entry.
REJECT == << "**", "REJECT", "**" >>


\* ------------------------------------------------------------ feed content

\* CVE names as the feeds spell them (item.attrib["id"]).
CVE_2002_0001 ==
  << "C", "V", "E", "-", "2", "0", "0", "2", "-", "0", "0", "0", "1" >>

\* The same CVE spelled with a five-digit number.
CVE_2002_00001 ==
  << "C", "V", "E", "-", "2", "0", "0", "2", "-", "0", "0", "0", "0", "1" >>

CVE_2002_0002 ==
  << "C", "V", "E", "-", "2", "0", "0", "2", "-", "0", "0", "0", "2" >>

\* A name that fails the length assertion of __load_cve_entry.
CVE_SHORT == << "C", "V", "E", "-", "2", "0", "0", "2", "-", "1" >>

\* The five CVSS columns (score, access vector, access complexity,
\* authentication, integrity impact): all present or all NULL.
NoCvss == << NULL, NULL, NULL, NULL, NULL >>
CvssHigh == << "9.3", "NETWORK", "MEDIUM", "NONE", "COMPLETE" >>
CvssLow == << "2.1", "LOCAL", "LOW", "NONE", "NONE" >>

\* What __load_cve_entry extracts from one <entry> element.
Entry(id, cvss, cwe, summary, products, references) ==
  [ id |-> id, cvss |-> cvss, cwe |-> cwe, summary |-> summary,
    products |-> products, references |-> references ]

EntryA1 ==
  Entry(CVE_2002_0001, CvssHigh, "CWE-79", << "overflow", "in", "x" >>,
        << "cpe:/a:v:p:1" >>, << "http://u/1" >>)

\* A later revision of the same CVE: other metrics, other product, no URL.
EntryA2 ==
  Entry(CVE_2002_00001, CvssLow, NULL, << "REJECT", "was", "lifted" >>,
        << "cpe:/a:v:p:2" >>, << >>)

\* The same CVE withdrawn; the withdrawn entry still lists a URL.
EntryAReject ==
  Entry(CVE_2002_0001, NoCvss, NULL, << "**", "REJECT", "**", "dup" >>,
        << >>, << "http://u/2" >>)

EntryB1 ==
  Entry(CVE_2002_0002, NoCvss, "CWE-20", << >>,
        << "cpe:/a:v:p:1" >>, << "http://u/1", "http://u/2" >>)

EntryBReject ==
  Entry(CVE_2002_0002, NoCvss, NULL, << "**", "REJECT", "**", "dup" >>,
        << "cpe:/a:v:p:2" >>, << >>)

EntryBad == Entry(CVE_SHORT, NoCvss, NULL, << "text" >>, << >>, << >>)

\* What __load_vendor_statement_entry extracts from one <statement>.
Statement(cvename, contributor, organization, text) ==
  [ cvename |-> cvename, contributor |-> contributor,
    organization |-> organization, statement |-> text ]

StatementA == Statement(CVE_2002_0001, "joe", "Red Hat", "not affected")
StatementB == Statement(CVE_2002_0002, NULL, "Red Hat", "fixed")

\* An XML document: the records of its well-formed prefix, and whether the
\* document is well formed to its end (a truncated download is not).
Doc(items, wellformed) == [ items |-> items, wellformed |-> wellformed ]

\* The documents each feed file is seen with: the yearly file brings first
\* sightings, the incremental files revisions and withdrawals; each has a
\* version that cannot be ingested.
DocsOf(xml_file) ==
  CASE xml_file = "nvdcve-2.0-2002.xml" ->
         { Doc(<< EntryA1 >>, TRUE), Doc(<< EntryB1 >>, FALSE) }
    [] xml_file = "nvdcve-2.0-modified.xml" ->
         { Doc(<< EntryA2 >>, TRUE), Doc(<< EntryB1, EntryBad >>, TRUE) }
    [] xml_file = "nvdcve-2.0-recent.xml" ->
         { Doc(<< EntryAReject, EntryBReject >>, TRUE),
           Doc(<< EntryA1, EntryB1 >>, TRUE) }
    [] xml_file = VENDOR_XML_FILE ->
         { Doc(<< StatementA, StatementB >>, TRUE),
           Doc(<< StatementA >>, FALSE) }

\* The copy of a feed file that is staged by hand.
StagedDoc(xml_file) ==
  CASE xml_file = "nvdcve-2.0-2002.xml" -> Doc(<< EntryA1 >>, TRUE)
    [] xml_file = "nvdcve-2.0-modified.xml" -> Doc(<< EntryA2 >>, TRUE)
    [] xml_file = "nvdcve-2.0-recent.xml" ->
         Doc(<< EntryAReject, EntryBReject >>, TRUE)
    [] xml_file = VENDOR_XML_FILE -> Doc(<< StatementA >>, FALSE)

\* The content of a file that cannot be opened is never read.
Unreadable == Doc(<< >>, FALSE)

\* --------------------------------------------------------------- database

\* The tables of SCHEMA, empty.
EmptyTables ==
  [ files |-> {}, cve |-> {}, cve_cpe_names |-> {}, cve_cpe |-> {},
    cve_ref_urls |-> {}, cve_references |-> {}, cve_vendor_statements |-> {} ]

\* The rowid SQLite gives a row inserted with rowid NULL into a table
\* with INTEGER PRIMARY KEY: one more than the largest in use.
NextRowid(rows) ==
  IF rows = {} THEN 1 ELSE SetMax({r.rowid : r \in rows}) + 1

\* INSERT INTO files: filename is UNIQUE ON CONFLICT REPLACE.
InsertFile(t, filename, last_modified, last_modified_string) ==
  [ t EXCEPT !.files =
      {r \in @ : r.filename # filename} \cup
      { [ filename |-> filename, last_modified |-> last_modified,
          last_modified_string |-> last_modified_string ] } ]

\* SELECT last_modified, last_modified_string FROM files WHERE filename = ?
FileRows(t, filename) == {r \in t.files : r.filename = filename}

\* A DELETE under a schema without the ON DELETE CASCADE clauses.
DeleteCveNoCascade(t, cve_id, foreign_keys) ==
  [ t EXCEPT !.cve = {r \in @ : r.rowid # cve_id} ]

\* DELETE FROM cve WHERE rowid = ?.  With PRAGMA foreign_keys = ON the
\* ON DELETE CASCADE clauses of cve_cpe, cve_references and
\* cve_vendor_statements delete the rows that reference the CVE; with the
\* pragma off (SQLite's default for a connection) they stay.
DeleteCve(t, cve_id, foreign_keys) ==
  IF foreign_keys
  THEN [ t EXCEPT
           !.cve = {r \in @ : r.rowid # cve_id},
           !.cve_cpe = {r \in @ : r.id_cve # cve_id},
           !.cve_references = {r \in @ : r.id_cve # cve_id},
           !.cve_vendor_statements = {r \in @ : r.id_cve # cve_id} ]
  ELSE [ t EXCEPT !.cve = {r \in @ : r.rowid # cve_id} ]

\* cvename[4:8] and cvename[9:]
YearText(cvename) == SubSeq(cvename, 5, 8)
NumberText(cvename) == SubSeq(cvename, 10, Len(cvename))

\* The exception __load_cve_entry raises before it touches the database:
\* the two assertions, then int().
EntryError(item) ==
  IF ~StartsWith(item.id, << "C", "V", "E", "-" >>) THEN "AssertionError"
  ELSE IF Len(item.id) \notin {13, 14} THEN "AssertionError"
  ELSE IF ~IsInt(YearText(item.id)) \/ ~IsInt(NumberText(item.id))
       THEN "ValueError"
  ELSE "None"

\* A withdrawn entry told by comparing the whole summary with the marker.
IsRejectedExact(summary) == summary = REJECT

\* summary is not None and summary.startswith("** REJECT **")
IsRejected(summary) == summary # << >> /\ StartsWith(summary, REJECT)

\* SELECT rowid FROM cve WHERE year = ? AND number = ? LIMIT 1
CveRows(t, year, number) ==
  {r \in t.cve : r.year = year /\ r.number = number}

\* The loop over references: look the URL up, insert it when unknown,
\* then INSERT INTO cve_references (UNIQUE ... ON CONFLICT IGNORE).
RECURSIVE link_references(_, _, _)
link_references(t, cve_id, references) ==
  IF references = << >> THEN t
  ELSE
    LET ref == Head(references)
        has_ref_id == {r \in t.cve_ref_urls : r.url = ref}
        ref_id == IF has_ref_id # {}
                  THEN (CHOOSE r \in has_ref_id : TRUE).rowid
                  ELSE NextRowid(t.cve_ref_urls)
        t1 == IF has_ref_id # {} THEN t
              ELSE [ t EXCEPT !.cve_ref_urls =
                       @ \cup {[rowid |-> ref_id, url |-> ref]} ]
        t2 == [ t1 EXCEPT !.cve_references =
                  @ \cup {[id_cve |-> cve_id, id_ref |-> ref_id]} ]
    IN link_references(t2, cve_id, Tail(references))

\* The loop over products, the same way.
RECURSIVE link_products(_, _, _)
link_products(t, cve_id, products) ==
  IF products = << >> THEN t
  ELSE
    LET cpe == Head(products)
        has_cpe_id == {r \in t.cve_cpe_names : r.cpe_name = cpe}
        cpe_id == IF has_cpe_id # {}
                  THEN (CHOOSE r \in has_cpe_id : TRUE).rowid
                  ELSE NextRowid(t.cve_cpe_names)
        t1 == IF has_cpe_id # {} THEN t
              ELSE [ t EXCEPT !.cve_cpe_names =
                       @ \cup {[rowid |-> cpe_id, cpe_name |-> cpe]} ]
        t2 == [ t1 EXCEPT !.cve_cpe =
                  @ \cup {[id_cve |-> cve_id, id_cpe |-> cpe_id]} ]
    IN link_products(t2, cve_id, Tail(products))

\* The row an entry writes into cve.
CveRow(rowid, year, number, item) ==
  [ rowid |-> rowid, year |-> year, number |-> number,
    cvss |-> item.cvss, cwe |-> item.cwe, summary |-> item.summary ]

\* The entry written with INSERT OR REPLACE: the row gets a new rowid.
ReplaceCve(t, cve_id, item) ==
  LET old == CHOOSE r \in t.cve : r.rowid = cve_id
      rest == {r \in t.cve : r.rowid # cve_id}
  IN [ t EXCEPT !.cve =
         rest \cup {CveRow(NextRowid(t.cve), old.year, old.number, item)} ]

\* An upsert that leaves the row of a known CVE as the first file wrote it.
KeepCve(t, cve_id, item) == t

\* UPDATE cve SET cvss_score = ?, ..., cwe = ?, summary = ? WHERE rowid = ?
UpdateCve(t, cve_id, item) ==
  [ t EXCEPT !.cve =
      { IF r.rowid = cve_id
        THEN [ r EXCEPT !.cvss = item.cvss, !.cwe = item.cwe,
                        !.summary = item.summary ]
        ELSE r : r \in @ } ]

\* INSERT INTO cve VALUES (NULL, year, number, ...)
InsertCve(t, year, number, item) ==
  [ t EXCEPT !.cve = @ \cup {CveRow(NextRowid(t.cve), year, number, item)} ]

\* CVEDB.__load_cve_entry on the tables t of the open transaction: the
\* tables it leaves and the exception it raises ("None": it returns).
load_cve_entry(t, item, foreign_keys) ==
  IF EntryError(item) # "None" THEN [ t |-> t, exc |-> EntryError(item) ]
  ELSE
    LET year == ToInt(YearText(item.id))
        number == ToInt(NumberText(item.id))
        has_cve_id == CveRows(t, year, number)
    IN
      IF has_cve_id # {}
      THEN
        LET cve_id == (CHOOSE r \in has_cve_id : TRUE).rowid IN
          IF IsRejected(item.summary)
          THEN [ t |-> DeleteCve(t, cve_id, foreign_keys), exc |-> "None" ]
          ELSE
            LET t1 == UpdateCve(t, cve_id, item)
            IN [ t |-> link_products(
                         link_references(t1, cve_id, item.references),
                         cve_id, item.products),
                 exc |-> "None" ]
      ELSE
        IF IsRejected(item.summary)
        THEN [ t |-> t, exc |-> "None" ]
        ELSE
          LET cve_id == NextRowid(t.cve)
              t1 == InsertCve(t, year, number, item)
          IN [ t |-> link_products(
                       link_references(t1, cve_id, item.references),
                       cve_id, item.products),
               exc |-> "None" ]

\* CVEDB.__load_vendor_statement_entry: INSERT OR REPLACE on
\* UNIQUE (id_cve, contributor, organization).  SQLite holds NULLs to be
\* distinct in a UNIQUE constraint, so a row is replaced only when neither
\* column is NULL.  The table has SQLite's implicit rowid.  A statement
\* for a CVE that has no row is skipped with a warning.
load_vendor_statement_entry(t, item) ==
  IF ~IsInt(YearText(item.cvename)) \/ ~IsInt(NumberText(item.cvename))
  THEN [ t |-> t, exc |-> "ValueError" ]
  ELSE
    LET year == ToInt(YearText(item.cvename))
        number == ToInt(NumberText(item.cvename))
        has_cve == CveRows(t, year, number)
    IN
      IF has_cve = {} THEN [ t |-> t, exc |-> "None" ]
      ELSE
        LET cve_id == (CHOOSE r \in has_cve : TRUE).rowid
            conflict ==
              {r \in t.cve_vendor_statements :
                 /\ r.id_cve = cve_id
                 /\ r.contributor = item.contributor
                 /\ r.organization = item.organization
                 /\ item.contributor # NULL
                 /\ item.organization # NULL}
            kept == t.cve_vendor_statements \ conflict
        IN
          [ t |-> [ t EXCEPT !.cve_vendor_statements =
                      kept \cup
                      {[ rowid |-> NextRowid(kept),
                         id_cve |-> cve_id,
                         contributor |-> item.contributor,
                         organization |-> item.organization,
                         statement |-> item.statement ]} ],
            exc |-> "None" ]

\* ------------------------------------------------------------ feed fetcher

\* asctime(gmtime(t)): the C library's date text of a timestamp.
asctime(t) == << "asctime", t >>

\* The Last-Modified header of a response: an HTTP date, or no header.
HttpDate(t) == << "http-date", t >>
NoHeader == << >>

\* A file of the working directory.
NoFile ==
  [ exists |-> FALSE, doc |-> Doc(<< >>, TRUE), mtime |-> 0,
    openable |-> FALSE ]
File(doc, mtime, openable) ==
  [ exists |-> TRUE, doc |-> doc, mtime |-> mtime, openable |-> openable ]

\* What __download returns: None, an etree.iterparse over the file (it
\* reads the file as the caller iterates, so a malformed file fails
\* there) or the tree of etree.parse.
NoParser == [ open |-> FALSE, items |-> << >>, wellformed |-> TRUE ]
Parser(doc) ==
  [ open |-> TRUE, items |-> doc.items, wellformed |-> doc.wellformed ]

\* Whether the try block of __download gets a parser for the local file:
\* etree.iterparse only opens it, etree.parse reads all of it.
CanParse(file, big_file) ==
  file.openable /\ (big_file \/ file.doc.wellformed)

\* An HTTP response: the status, the Last-Modified header, the body, and
\* whether the body arrives whole.
Response(code, last_modified, doc, complete) ==
  [ code |-> code, last_modified |-> last_modified, doc |-> doc,
    complete |-> complete ]

\* The outcome of __download.
Fetched(t, file, xml_parser, exc, requested, if_modified_since, wrote) ==
  [ t |-> t, file |-> file, xml_parser |-> xml_parser, exc |-> exc,
    requested |-> requested, if_modified_since |-> if_modified_since,
    wrote |-> wrote ]

\* A fetch that uses every local file it can read.
UseLocalAlways(local_time, db_time) == local_time # 0

\* What __download decides with "Use the local file if newer or not yet
\* loaded in the database".
UseLocal(local_time, db_time) ==
  local_time # 0 /\ (db_time = 0 \/ local_time > db_time)

\* A 304 answer that returns the parser of the local file.
NotModifiedLocal(t, file, local_parser, db_time_str) ==
  Fetched(t, file, local_parser, "None", TRUE, db_time_str, FALSE)

\* The 304 answer: downloaded is False, and the function ends without a
\* return statement, so it returns None whatever xml_parser holds.
NotModified(t, file, local_parser, db_time_str) ==
  Fetched(t, file, NoParser, "None", TRUE, db_time_str, FALSE)

\* CVEDB.__download (the same code as VulnerabilityDB.__download, which is
\* always big_file).  t: the tables of the open transaction; file: the local
\* file of that name; resp: what the server answers if it is asked;
\* now: the clock, the mtime of a file written now.  Python's None for
\* db_time and local_time is 0 here: the code tests both by truth value.
download(t, file, xml_file, big_file, resp, now) ==
  LET row == FileRows(t, xml_file)
      db_time == IF row # {} THEN (CHOOSE r \in row : TRUE).last_modified
                 ELSE 0
      db_time_str ==
        IF row # {} THEN (CHOOSE r \in row : TRUE).last_modified_string
        ELSE << >>
      readable == file.exists /\ CanParse(file, big_file)
      \* a local file that cannot be read is deleted
      file1 == IF file.exists /\ ~readable THEN NoFile ELSE file
      local_parser == IF readable THEN Parser(file.doc) ELSE NoParser
      local_time == IF readable THEN file.mtime ELSE 0
  IN
    IF UseLocal(local_time, db_time)
    THEN Fetched(InsertFile(t, xml_file, local_time, asctime(local_time)),
                 file1, local_parser, "None", FALSE, << >>, FALSE)
    ELSE IF resp.code # 200
    THEN
      IF db_time = 0 \/ resp.code # 304
      THEN Fetched(t, file1, NoParser, "HTTPError", TRUE, db_time_str, FALSE)
      ELSE NotModified(t, file1, local_parser, db_time_str)
    ELSE IF ~resp.complete
    THEN Fetched(t, NoFile, NoParser, "IOError", TRUE, db_time_str, TRUE)
    ELSE
      LET file2 == File(resp.doc, now, TRUE) IN
        IF ~big_file /\ ~resp.doc.wellformed
        THEN Fetched(t, file2, NoParser, "ParseError", TRUE, db_time_str, TRUE)
        ELSE
          LET new_time == IF db_time = 0 THEN file2.mtime ELSE db_time
              new_time_str == IF resp.last_modified = << >>
                              THEN asctime(new_time)
                              ELSE resp.last_modified
          IN Fetched(InsertFile(t, xml_file, new_time, new_time_str),
                     file2, Parser(resp.doc), "None", TRUE, db_time_str, TRUE)
\* ------------------------------------------------------- lock and threads

Threads == 1..NumThreads
Nobody == 0

\* threading.RLock: its owner, and how often the owner has acquired it.
FreeLock == [ owner |-> Nobody, count |-> 0 ]

\* A lock any thread gets at once.
CanAcquireUnlocked(l, t) == TRUE

\* Whether acquire() returns at once for thread t; otherwise t blocks.
CanAcquire(l, t) == l.owner \in {Nobody, t}

acquire(l, t) == [ owner |-> t, count |-> l.count + 1 ]

\* A lock its owner never gives back.
release_kept(l) == IF l.count <= 1 THEN l ELSE [ l EXCEPT !.count = @ - 1 ]

release(l) == IF l.count <= 1 THEN FreeLock ELSE [ l EXCEPT !.count = @ - 1 ]

\* One open call of _transaction by a thread: where it stands, and the
\* exception on its way out of fn.
Frame(at, e) == [ at |-> at, exc |-> e ]

\* ------------------------------------------------------------ CVEDB state

VARIABLES
  lock,          \* the store's __lock
  stack,         \* thread -> its open calls of _transaction, outermost first
  outcome,       \* thread -> how its last outermost call ended
  calls,         \* calls of transactional methods made so far
  db,            \* the tables as committed in the database file
  cur,           \* the tables as the connection sees them (uncommitted too)
  foreign_keys,  \* PRAGMA foreign_keys of the connection
  fs,            \* the working directory: feed file name -> file
  now,           \* the clock: it ticks when update() is called and when
                 \* somebody stages a file
  sends_last_modified,  \* whether the server's responses carry Last-Modified
  incidents,     \* files staged and failing answers given so far
  pc,            \* where update() stands
  idx,           \* index in FeedOrder of the feed file being loaded
  loads,         \* loads of a feed file begun so far
  busy,          \* CVEDB.__busy
  cursor,        \* whether CVEDB.__cursor is a cursor (not None)
  xml_parser,    \* the parser the running load iterates
  exc,           \* the exception in flight inside the transaction
  raised,        \* the exception update() raised to its caller
  tx_start,      \* history: the committed tables when the transaction began
  ev,            \* history: the last step taken and what it started from
  seen,          \* history: the entries update() has ingested since it
                 \* was called, the last one of each CVE
  listener,      \* TCPBouncer / RemoteShell: the loop of run()
  fds,           \* descriptor -> the socket or pipe end behind it
  fwd            \* forwarding thread -> where forward() stands

\* The database file and the connection.
store_vars == << db, cur, foreign_keys >>
\* The world around the store, but for the working directory.
world_vars == << now, sends_last_modified, incidents >>
\* The transaction wrapper.
tx_vars == << busy, cursor, tx_start >>

\* The threads and the lock.
thread_vars == << lock, stack, outcome, calls >>

\* The forwarders, which no store has.
net_vars == << listener, fds, fwd >>
NoNetwork ==
  /\ listener = [ pc |-> "none" ]
  /\ fds = << >>
  /\ fwd = << >>

cve_vars ==
  << thread_vars, db, cur, foreign_keys, fs, now, sends_last_modified,
     incidents, pc,
     idx, loads, busy, cursor, xml_parser, exc, raised, tx_start, ev,
     seen, net_vars >>

NoEvent == [ op |-> "none" ]

\* History of one update(): for each CVE the last entry ingested and the
\* feed files it came in, as committed and as the open transaction has it.
NoneSeen == [ committed |-> {}, pending |-> {} ]
SeeEntry(entries, xml_file, item) ==
  LET year == ToInt(YearText(item.id))
      number == ToInt(NumberText(item.id))
      same == {e \in entries : e.year = year /\ e.number = number}
      files == UNION {e.files : e \in same}
  IN (entries \ same) \cup
       {[ year |-> year, number |-> number, item |-> item,
          files |-> files \cup {xml_file} ]}

\* What the server may answer to a request for xml_file at time t:
\* not modified, an error, a document, a document that breaks off.
Responses(xml_file, t, with_header) ==
  LET h == IF with_header THEN HttpDate(t) ELSE NoHeader IN
    { Response(304, NoHeader, Doc(<< >>, TRUE), TRUE),
      Response(404, NoHeader, Doc(<< >>, TRUE), TRUE) }
    \cup { Response(200, h, d, TRUE) : d \in DocsOf(xml_file) }
    \cup { Response(200, h, Unreadable, FALSE) }

\* No request was made.
NoResponse == Response(0, NoHeader, Doc(<< >>, TRUE), TRUE)

\* Whether an answer makes the load that asked for it fail.
IsFault(xml_file, resp, if_modified_since) ==
  \/ resp.code \notin {200, 304}
  \/ resp.code = 304 /\ if_modified_since = << >>
  \/ resp.code = 200 /\ ~resp.complete
  \/ resp.code = 200 /\ ~resp.doc.wellformed
  \/ /\ resp.code = 200
     /\ xml_file # VENDOR_XML_FILE
     /\ \E i \in 1..Len(resp.doc.items) :
          EntryError(resp.doc.items[i]) # "None"

\* CVEDB.__init__ on a database file that does not exist yet, before the
\* update() it calls: no table has a row, SQLite's foreign keys are off.
CveInit ==
  /\ db = EmptyTables
  /\ cur = EmptyTables
  /\ foreign_keys = FALSE
  /\ fs = [f \in FeedFiles |-> NoFile]
  /\ now = 1
  /\ sends_last_modified \in BOOLEAN
  /\ incidents = 0
  /\ pc = "idle"
  /\ idx = 0
  /\ loads = 0
  /\ busy = FALSE
  /\ cursor = FALSE
  /\ xml_parser = NoParser
  /\ exc = "None"
  /\ raised = "None"
  /\ tx_start = EmptyTables
  /\ ev = NoEvent
  /\ seen = NoneSeen
  /\ NoNetwork
  /\ lock = FreeLock
  /\ stack = [t \in Threads |-> << >>]
  /\ outcome = [t \in Threads |-> "None"]
  /\ calls = 0

\* A caller invokes update().
Update ==
  /\ pc = "idle"
  /\ loads < MaxLoads
  /\ now' = now + 1
  /\ pc' = "create_schema"
  /\ raised' = "None"
  /\ ev' = NoEvent
  /\ seen' = NoneSeen
  /\ UNCHANGED << thread_vars, net_vars,
                  store_vars, tx_vars, fs, sends_last_modified, incidents,
                  idx, loads, xml_parser, exc >>

\* What executescript(SCHEMA) does to the connection: it commits, then
\* runs the script outside any transaction, where PRAGMA foreign_keys = ON
\* takes effect; every CREATE is IF NOT EXISTS and leaves the rows alone.
SchemaForeignKeys(fk) == TRUE

\* update(): self.__create_schema(), a whole transaction.
create_schema ==
  /\ pc = "create_schema"
  /\ ~busy
  /\ foreign_keys' = SchemaForeignKeys(foreign_keys)
  /\ db' = cur
  /\ pc' = "call"
  /\ idx' = 1
  /\ ev' = NoEvent
  /\ UNCHANGED << thread_vars, net_vars, seen,
                  cur, tx_vars, world_vars, fs, loads, xml_parser, exc,
                  raised >>

\* _transaction up to the call of fn, for __load_cve_file or
\* __load_vendor_statements.  The lock is free: one thread runs update().
TxBegin ==
  /\ pc = "call"
  /\ loads < MaxLoads
  /\ loads' = loads + 1
  /\ IF busy
     THEN /\ raised' = "RuntimeError"
          /\ pc' = "idle"
          /\ UNCHANGED tx_vars
     ELSE /\ busy' = TRUE
          /\ cursor' = TRUE
          /\ tx_start' = db
          /\ pc' = "download"
          /\ UNCHANGED raised
  /\ ev' = NoEvent
  /\ UNCHANGED << thread_vars, net_vars, seen,
                  store_vars, world_vars, fs, idx, xml_parser, exc >>

\* big_file is False for the vendor statements only.
BigFile(xml_file) == xml_file # VENDOR_XML_FILE

\* The call of __download at the head of a load.
Download ==
  /\ pc = "download"
  /\ LET xml_file == FeedOrder[idx] IN
     \E resp \in Responses(xml_file, now, sends_last_modified) :
       LET out == download(cur, fs[xml_file], xml_file, BigFile(xml_file),
                           resp, now)
           fault == out.requested
                    /\ IsFault(xml_file, resp, out.if_modified_since)
       IN /\ ~out.requested =>
               resp = Response(304, NoHeader, Doc(<< >>, TRUE), TRUE)
          /\ fault => incidents < MaxIncidents
          /\ incidents' = IF fault THEN incidents + 1 ELSE incidents
          /\ cur' = out.t
          /\ fs' = [fs EXCEPT ![xml_file] = out.file]
          /\ xml_parser' = out.xml_parser
          /\ exc' = out.exc
          /\ pc' = IF out.exc # "None" THEN "except"
                   ELSE IF out.xml_parser.open THEN "ingest"
                   ELSE "return"
          /\ ev' = [ op |-> "download", xml_file |-> xml_file,
                     files |-> cur.files, file |-> fs[xml_file],
                     requested |-> out.requested,
                     if_modified_since |-> out.if_modified_since,
                     resp |-> IF out.requested THEN resp ELSE NoResponse,
                     at |-> now ]
  /\ UNCHANGED << thread_vars, net_vars, seen,
                  db, foreign_keys, tx_vars, now, sends_last_modified, idx,
                  loads, raised >>

\* One turn of the loop over the parser: the next record is stored.
LoadItem ==
  /\ pc = "ingest"
  /\ xml_parser.items # << >>
  /\ LET item == Head(xml_parser.items)
         out == IF BigFile(FeedOrder[idx])
                THEN load_cve_entry(cur, item, foreign_keys)
                ELSE load_vendor_statement_entry(cur, item)
     IN /\ cur' = out.t
        /\ exc' = out.exc
        /\ pc' = IF out.exc # "None" THEN "except" ELSE "ingest"
        /\ ev' = [ op |-> "entry", xml_file |-> FeedOrder[idx],
                   item |-> item, before |-> cur ]
        /\ seen' = IF BigFile(FeedOrder[idx]) /\ out.exc = "None"
                   THEN [seen EXCEPT !.pending =
                                       SeeEntry(@, FeedOrder[idx], item)]
                   ELSE seen
  /\ xml_parser' = [xml_parser EXCEPT !.items = Tail(@)]
  /\ UNCHANGED << thread_vars, net_vars,
                  db, foreign_keys, tx_vars, world_vars, fs, idx, loads,
                  raised >>

\* The parser reaches the place where the document is malformed.
ParseError ==
  /\ pc = "ingest"
  /\ xml_parser.items = << >>
  /\ ~xml_parser.wellformed
  /\ exc' = "ParseError"
  /\ pc' = "except"
  /\ ev' = NoEvent
  /\ UNCHANGED << thread_vars, net_vars, seen,
                  store_vars, tx_vars, world_vars, fs, idx, loads,
                  xml_parser, raised >>

\* The loop ends: unlink(xml_file), and fn returns.
FinishLoad ==
  /\ pc = "ingest"
  /\ xml_parser.items = << >>
  /\ xml_parser.wellformed
  /\ fs' = [fs EXCEPT ![FeedOrder[idx]] = NoFile]
  /\ pc' = "return"
  /\ ev' = NoEvent
  /\ UNCHANGED << thread_vars, net_vars, seen,
                  store_vars, tx_vars, world_vars, idx, loads, xml_parser,
                  exc, raised >>

\* A commit that does not reach the file.
commit_lost(d, c) == << d, c >>

\* sqlite3's commit and rollback: what the file holds and what the
\* connection sees afterwards, as << db, cur >>.
commit(d, c) == << c, c >>

\* An except clause that re-raises without rolling back.
rollback_missing(d, c) == << d, c >>

\* A rollback that spares the files table.
rollback_keeps_files(d, c) ==
  << [d EXCEPT !.files = c.files], [d EXCEPT !.files = c.files] >>

rollback(d, c) == << d, d >>

\* _transaction after fn returned: commit, the finally clause, and back in
\* update() the next feed file, if any.
TxCommit ==
  /\ pc = "return"
  /\ db' = commit(db, cur)[1]
  /\ cur' = commit(db, cur)[2]
  /\ cursor' = FALSE
  /\ busy' = FALSE
  /\ xml_parser' = NoParser
  /\ IF idx < Len(FeedOrder)
     THEN idx' = idx + 1 /\ pc' = "call"
     ELSE idx' = 0 /\ pc' = "idle"
  /\ ev' = [ op |-> "commit", xml_file |-> FeedOrder[idx], before |-> cur ]
  /\ seen' = [ committed |-> seen.pending, pending |-> seen.pending ]
  /\ UNCHANGED << thread_vars, net_vars,
                  foreign_keys, world_vars, fs, loads, exc, raised,
                  tx_start >>

\* _transaction after fn raised: rollback, re-raise, the finally clause;
\* update() does not catch, so its caller gets the exception.
TxRollback ==
  /\ pc = "except"
  /\ db' = rollback(db, cur)[1]
  /\ cur' = rollback(db, cur)[2]
  /\ cursor' = FALSE
  /\ busy' = FALSE
  /\ xml_parser' = NoParser
  /\ raised' = exc
  /\ exc' = "None"
  /\ idx' = 0
  /\ pc' = "idle"
  /\ ev' = [ op |-> "rollback", xml_file |-> FeedOrder[idx],
             before |-> cur, exc |-> exc ]
  /\ seen' = [ committed |-> seen.committed, pending |-> seen.committed ]
  /\ UNCHANGED << thread_vars, net_vars,
                  foreign_keys, world_vars, fs, loads, tx_start >>

\* Between two update() calls somebody puts a feed file into the working
\* directory: a copy of the feed written now, a copy that keeps an old
\* modification time, or something that cannot be opened.
Stage ==
  /\ pc = "idle"
  /\ loads < MaxLoads
  /\ incidents < MaxIncidents
  /\ incidents' = incidents + 1
  /\ now' = now + 1
  /\ \E xml_file \in FeedFiles :
       \E f \in { File(StagedDoc(xml_file), now', TRUE),
                  File(StagedDoc(xml_file), 1, TRUE),
                  File(Unreadable, now', FALSE) } :
         fs' = [fs EXCEPT ![xml_file] = f]
  /\ ev' = NoEvent
  /\ UNCHANGED << thread_vars, net_vars, seen,
                  store_vars, tx_vars, sends_last_modified, pc, idx, loads,
                  xml_parser, exc, raised >>

CveNext ==
  \/ Update
  \/ create_schema
  \/ TxBegin
  \/ Download
  \/ LoadItem
  \/ ParseError
  \/ FinishLoad
  \/ TxCommit
  \/ TxRollback
  \/ Stage

Spec == CveInit /\ [][CveNext]_cve_vars
\* ------------------------------------------------- claims about the CVE store

\* The last step ingested a CVE entry whose name passed the checks.
EntryStep ==
  /\ ev.op = "entry"
  /\ BigFile(ev.xml_file)
  /\ EntryError(ev.item) = "None"

\* The rows the entry's (year, number) had before the step.
EntryRowsBefore ==
  CveRows(ev.before, ToInt(YearText(ev.item.id)),
          ToInt(NumberText(ev.item.id)))

EntryRejected ==
  StartsWith(ev.item.summary, << "**", "REJECT", "**" >>)

\* Rows of the three tables that reference CVE row cve_id.
Referencing(t, cve_id) ==
  << {r \in t.cve_cpe : r.id_cve = cve_id},
     {r \in t.cve_references : r.id_cve = cve_id},
     {r \in t.cve_vendor_statements : r.id_cve = cve_id} >>

\* C1: ingesting an entry marked "** REJECT **" whose (year, number) has a
\* row deletes that row; afterwards no row of cve_cpe, cve_references or
\* cve_vendor_statements references it, and nothing of the rejected entry
\* was inserted (no CVE row, URL, CPE name or association is new).
C1_RejectDeletesRowAndReferences ==
  (EntryStep /\ EntryRejected /\ EntryRowsBefore # {}) =>
    LET old == CHOOSE r \in EntryRowsBefore : TRUE IN
      /\ exc = "None"
      /\ cur.cve = ev.before.cve \ {old}
      /\ Referencing(cur, old.rowid) = << {}, {}, {} >>
      /\ cur.cve_ref_urls = ev.before.cve_ref_urls
      /\ cur.cve_cpe_names = ev.before.cve_cpe_names
      /\ cur.cve_cpe \subseteq ev.before.cve_cpe
      /\ cur.cve_references \subseteq ev.before.cve_references
      /\ cur.cve_vendor_statements \subseteq ev.before.cve_vendor_statements

\* C1's case: the deleted row was referenced from all three tables.
C1_Witness ==
  /\ EntryStep /\ EntryRejected /\ EntryRowsBefore # {}
  /\ LET old == CHOOSE r \in EntryRowsBefore : TRUE IN
       /\ Referencing(ev.before, old.rowid)[1] # {}
       /\ Referencing(ev.before, old.rowid)[2] # {}
       /\ Referencing(ev.before, old.rowid)[3] # {}
       /\ old \notin cur.cve

\* C2: ingesting an entry marked "** REJECT **" whose (year, number) has no
\* row changes no table: not cve, not the cross-reference tables, not the
\* URL and CPE-name tables.
C2_RejectUnknownIsNoOp ==
  (EntryStep /\ EntryRejected /\ EntryRowsBefore = {}) =>
    (cur = ev.before /\ exc = "None")

\* C2's case: a withdrawn entry that lists a product, for an unknown CVE.
C2_Witness ==
  /\ EntryStep /\ EntryRejected /\ EntryRowsBefore = {}
  /\ ev.item.products # << >>
  /\ pc = "ingest"

\* No two rows of a cve table share (year, number).
OneRowPerCve(t) ==
  \A r1, r2 \in t.cve :
    (r1.year = r2.year /\ r1.number = r2.number) => r1 = r2

\* C3: cve never holds two rows for one (year, number), in the connection
\* or in the file; an entry that is not rejected updates the CVSS, cwe and
\* summary fields of the row of a known key in place (same rowid) and
\* inserts exactly one row for an unknown key.
C3_OneRowPerKeyUpsert ==
  /\ OneRowPerCve(cur)
  /\ OneRowPerCve(db)
  /\ (EntryStep /\ ~EntryRejected /\ EntryRowsBefore # {}) =>
       LET old == CHOOSE r \in EntryRowsBefore : TRUE IN
         cur.cve = (ev.before.cve \ {old}) \cup
                   { [ rowid |-> old.rowid, year |-> old.year,
                       number |-> old.number, cvss |-> ev.item.cvss,
                       cwe |-> ev.item.cwe, summary |-> ev.item.summary ] }
  /\ (EntryStep /\ ~EntryRejected /\ EntryRowsBefore = {}) =>
       /\ ev.before.cve \subseteq cur.cve
       /\ Cardinality(cur.cve) = Cardinality(ev.before.cve) + 1
       /\ \E r \in cur.cve \ ev.before.cve :
            /\ r.year = ToInt(YearText(ev.item.id))
            /\ r.number = ToInt(NumberText(ev.item.id))
            /\ r.cvss = ev.item.cvss
            /\ r.cwe = ev.item.cwe
            /\ r.summary = ev.item.summary

\* C3's case: a known CVE is seen again under another spelling of its
\* name, with other field values, while another CVE has a row too.
C3_Witness ==
  /\ EntryStep /\ ~EntryRejected /\ EntryRowsBefore # {}
  /\ ev.item.id = CVE_2002_00001
  /\ (CHOOSE r \in EntryRowsBefore : TRUE).cvss # ev.item.cvss
  /\ Cardinality(cur.cve) = 2

\* C4: when a transactional operation raises, the connection and the file
\* hold what the file held when the operation began (the rows of the
\* entries ingested before the failure and the watermark the fetch wrote
\* are gone), the caller gets that exception, and the store is not busy.
C4_ExceptionRollsBack ==
  (ev.op = "rollback") =>
    /\ cur = tx_start
    /\ db = tx_start
    /\ raised = ev.exc
    /\ raised # "None"
    /\ ~busy
    /\ ~cursor

\* C4's case: the failing load had written a watermark and a CVE row.
C4_Witness ==
  /\ ev.op = "rollback"
  /\ ev.before.files # tx_start.files
  /\ ev.before.cve # tx_start.cve
  /\ raised = "AssertionError"

\* The last step was the fetch of a feed file.
FetchStep == ev.op = "download"

\* The watermark row of the fetched file before and after the fetch.
WatermarkBefore == {r \in ev.files : r.filename = ev.xml_file}
WatermarkAfter == FileRows(cur, ev.xml_file)

\* The fetch returned a parser (NewData) or None (Unchanged).
ReturnedNewData == exc = "None" /\ xml_parser.open /\ pc = "ingest"
ReturnedUnchanged == exc = "None" /\ xml_parser = NoParser /\ pc = "return"

\* The local file could be opened for parsing.
LocalReadable == ev.file.exists /\ CanParse(ev.file, BigFile(ev.xml_file))

\* C7: with a watermark stored for the file, a conditional GET answered
\* with 304 makes the fetch return None; the files table is as it was, and
\* the local file is not written (a local file that could not be read was
\* deleted before the request, any other is as it was).
C7_NotModifiedIsUnchanged ==
  (FetchStep /\ ev.requested /\ ev.resp.code = 304 /\ WatermarkBefore # {}) =>
    /\ ReturnedUnchanged
    /\ cur.files = ev.files
    /\ WatermarkAfter = WatermarkBefore
    /\ ev.if_modified_since =
         (CHOOSE r \in WatermarkBefore : TRUE).last_modified_string
    /\ fs[ev.xml_file] = IF LocalReadable THEN ev.file ELSE NoFile

\* C7's case: a readable local copy that is not newer than the watermark
\* lies next to the database when the server answers 304.
C7_Witness ==
  /\ FetchStep /\ ev.requested /\ ev.resp.code = 304
  /\ WatermarkBefore # {}
  /\ LocalReadable
  /\ ev.file.doc.items # << >>
  /\ fs[ev.xml_file] = ev.file
  /\ xml_parser = NoParser

\* The time an HTTP date names.
HttpDateTime(h) == h[2]

\* C8: a download for a file that had a watermark returns a parser and
\* replaces the watermark by the time and the string of the response's
\* Last-Modified header, or, without the header, by the write time of the
\* file just written.
C8_DownloadTakesWatermarkFromHeader ==
  (FetchStep /\ ev.requested /\ ev.resp.code = 200 /\ exc = "None"
     /\ WatermarkBefore # {}) =>
    /\ ReturnedNewData
    /\ WatermarkAfter =
         { IF ev.resp.last_modified # NoHeader
           THEN [ filename |-> ev.xml_file,
                  last_modified |-> HttpDateTime(ev.resp.last_modified),
                  last_modified_string |-> ev.resp.last_modified ]
           ELSE [ filename |-> ev.xml_file,
                  last_modified |-> fs[ev.xml_file].mtime,
                  last_modified_string |-> asctime(fs[ev.xml_file].mtime) ] }

\* C9 as stated: a local file that is newer than the watermark, or that
\* has no watermark, is returned without a request and its modification
\* time recorded; any other local file leads to the conditional GET.
C9_LocalFileNewerIsUsed ==
  (FetchStep /\ ev.file.exists) =>
    IF \A r \in WatermarkBefore : ev.file.mtime > r.last_modified
    THEN /\ ~ev.requested
         /\ ReturnedNewData
         /\ xml_parser = Parser(ev.file.doc)
         /\ WatermarkAfter =
              { [ filename |-> ev.xml_file, last_modified |-> ev.file.mtime,
                  last_modified_string |-> asctime(ev.file.mtime) ] }
    ELSE ev.requested

\* C9, amended: the local file is used if it can be opened for parsing and
\* is newer than the watermark or has no watermark: no request, the parser
\* of that file, its modification time as the watermark.  A readable file
\* that is not newer leads to the conditional GET with the stored string; a
\* file that cannot be read is deleted and the file is requested, whatever
\* its modification time.
C9_ReadableLocalFileNewerIsUsed ==
  (FetchStep /\ ev.file.exists) =>
    IF LocalReadable
       /\ \A r \in WatermarkBefore : ev.file.mtime > r.last_modified
    THEN /\ ~ev.requested
         /\ ReturnedNewData
         /\ xml_parser = Parser(ev.file.doc)
         /\ fs[ev.xml_file] = ev.file
         /\ WatermarkAfter =
              { [ filename |-> ev.xml_file, last_modified |-> ev.file.mtime,
                  last_modified_string |-> asctime(ev.file.mtime) ] }
    ELSE /\ ev.requested
         /\ ev.if_modified_since =
              IF WatermarkBefore = {} THEN << >>
              ELSE (CHOOSE r \in WatermarkBefore : TRUE).last_modified_string
         /\ (~LocalReadable /\ ev.resp.code # 200) => fs[ev.xml_file] = NoFile

\* C9's case: a local file newer than the stored watermark is used.
C9_Witness ==
  /\ FetchStep /\ ev.file.exists /\ LocalReadable
  /\ WatermarkBefore # {}
  /\ ~ev.requested
  /\ ReturnedNewData
  /\ WatermarkAfter # WatermarkBefore
\* The place of a feed file in the order in which update() loads them.
FeedIndex(xml_file) ==
  CHOOSE i \in 1..Len(FeedOrder) : FeedOrder[i] = xml_file

\* What holds when the load of a feed file has just failed: the file holds
\* what it held when this load began, and with it the watermark of every
\* feed file that update() loaded before this one.
FailedLoadKeepsEarlierFiles ==
  (ev.op = "rollback") =>
    /\ db = tx_start
    /\ cur = db
    /\ raised # "None"
    /\ pc = "idle"
    /\ \A i \in 1..(FeedIndex(ev.xml_file) - 1) :
         FileRows(db, FeedOrder[i]) # {}

\* What every step does to the database file: it changes only in the
\* commit that ends the load of one feed file, and then to what that load
\* wrote; a load that failed leaves it as it is and ends update().
OneTransactionPerFile ==
  /\ (db' # db) => (pc = "return" /\ db' = cur /\ cur' = cur)
  /\ (pc = "return") => (tx_start = db /\ pc' \in {"call", "idle"})
  /\ (pc = "except") =>
       (db' = db /\ cur' = db /\ raised' = exc /\ pc' = "idle")

\* C12: update() loads each feed file in a transaction of its own.  When
\* the fetch or the ingestion of file k fails, update() raises; what the
\* loads of files 1..k-1 committed, rows and watermarks, stays in the
\* database file, and nothing that the load of file k wrote is in it.
C12_EachFileOwnTransaction ==
  []FailedLoadKeepsEarlierFiles /\ [][OneTransactionPerFile]_cve_vars

\* C12's case: in the first update() the second file fails after its
\* fetch wrote a watermark, and the first file's rows are in the file.
C12_Witness ==
  /\ ev.op = "rollback"
  /\ loads = 2
  /\ FeedIndex(ev.xml_file) = 2
  /\ ev.before.files # db.files
  /\ db.cve # {}
  /\ FileRows(db, FeedOrder[1]) # {}
  /\ FileRows(db, FeedOrder[2]) = {}

\* The last step ended a load that met malformed XML.
ParseErrorStep == ev.op = "rollback" /\ ev.exc = "ParseError"

\* C13: malformed XML in a feed file ends the load of that file with the
\* error; the watermark row of that file, in the database file and as the
\* connection sees it, is what it was when the load began (none if there
\* was none), and so are all tables.  The next fetch of the file therefore
\* starts from the old watermark: it reads the local copy again, or it
\* asks the server with the old If-Modified-Since (none if there was no
\* watermark).
C13_ParseErrorKeepsWatermark ==
  ParseErrorStep =>
    LET f == ev.xml_file
        old == FileRows(tx_start, f)
    IN /\ raised = "ParseError"
       /\ pc = "idle"
       /\ FileRows(db, f) = old
       /\ FileRows(cur, f) = old
       /\ cur.cve = tx_start.cve
       /\ cur.cve_vendor_statements = tx_start.cve_vendor_statements
       /\ \A resp \in Responses(f, now, sends_last_modified) :
            LET out == download(cur, fs[f], f, BigFile(f), resp, now) IN
              IF out.requested
              THEN out.if_modified_since =
                     IF old = {} THEN << >>
                     ELSE (CHOOSE r \in old : TRUE).last_modified_string
              ELSE out.xml_parser = Parser(fs[f].doc)

\* C13's case: the file had a watermark, the fetch replaced it, a record
\* was ingested, and then the parser met the malformed place.
C13_Witness ==
  /\ ParseErrorStep
  /\ FileRows(tx_start, ev.xml_file) # {}
  /\ FileRows(ev.before, ev.xml_file) # FileRows(tx_start, ev.xml_file)
  /\ ev.before.cve # tx_start.cve

\* The rows of cve agree with the last entry ingested for each CVE: none
\* for a rejected entry, else one row with that entry's fields.
LastWins(entries, t) ==
  \A e \in entries :
    LET rows == CveRows(t, e.year, e.number)
    IN IF IsRejected(e.item.summary)
       THEN rows = {}
       ELSE /\ Cardinality(rows) = 1
            /\ \A r \in rows : /\ r.cvss = e.item.cvss
                               /\ r.cwe = e.item.cwe
                               /\ r.summary = e.item.summary

\* C23: update() takes the feed files in the order yearly files,
\* "modified", "recent", vendor statements; it goes on to the next file
\* only in the step that commits the one before, the file then holding
\* all the connection has; and for every CVE ingested since update() was
\* called the row of cve holds the CVSS, cwe and summary fields of the
\* entry ingested last, in the file and in the connection.
C23_FilesInOrderLastOneWins ==
  /\ [](/\ FeedOrder = << "nvdcve-2.0-2002.xml", "nvdcve-2.0-modified.xml",
                          "nvdcve-2.0-recent.xml", "vendorstatements.xml" >>
        /\ LastWins(seen.committed, db)
        /\ LastWins(seen.pending, cur))
  /\ [][idx' # idx =>
          \/ idx' = 0
          \/ idx = 0 /\ idx' = 1 /\ seen' = NoneSeen
          \/ /\ idx' = idx + 1
             /\ ev'.op = "commit" /\ ev'.xml_file = FeedOrder[idx]
             /\ db' = cur /\ cur' = cur]_cve_vars

\* C23's case: one update() has committed two feed files that both hold
\* the same CVE, with different fields, and is past the second.
C23_Witness ==
  \E e \in seen.committed :
    /\ Cardinality(e.files) >= 2
    /\ e.item = EntryA2
    /\ "nvdcve-2.0-2002.xml" \in e.files
    /\ idx > 2
    /\ \E r \in db.cve : r.year = e.year /\ r.number = e.number
                          /\ r.cvss = CvssLow

\* The CPE names and the URLs the tables link to CVE row cve_id.
LinkedNames(t, cve_id) ==
  {n.cpe_name : n \in {n \in t.cve_cpe_names :
                         \E l \in t.cve_cpe :
                           l.id_cve = cve_id /\ l.id_cpe = n.rowid}}
LinkedUrls(t, cve_id) ==
  {u.url : u \in {u \in t.cve_ref_urls :
                    \E l \in t.cve_references :
                      l.id_cve = cve_id /\ l.id_ref = u.rowid}}

\* C24: after an entry that is not rejected was ingested for a CVE that
\* had a row, the CPE names linked to the CVE in cve_cpe are exactly the
\* entry's products and the URLs linked in cve_references are exactly the
\* entry's references.
C24_AssociationsAreThoseOfTheLatestEntry ==
  (EntryStep /\ EntryRowsBefore # {} /\ ~EntryRejected) =>
    \A r \in CveRows(cur, ToInt(YearText(ev.item.id)),
                      ToInt(NumberText(ev.item.id))) :
      /\ LinkedNames(cur, r.rowid) =
           {ev.item.products[i] : i \in DOMAIN ev.item.products}
      /\ LinkedUrls(cur, r.rowid) =
           {ev.item.references[i] : i \in DOMAIN ev.item.references}

\* update() is called again and again and each call runs to its end;
\* what is put into the working directory by hand is not owed.
UpdateRuns ==
  \/ Update \/ create_schema \/ TxBegin \/ Download
  \/ ParseError \/ FinishLoad \/ TxCommit \/ TxRollback
\* The loop over the parser goes on: LoadItem is the one step that takes
\* an item off the parser, and it can be taken whenever an item is left.
Ingests ==
  /\ pc = "ingest"
  /\ xml_parser.items # << >>
  /\ xml_parser' = [xml_parser EXCEPT !.items = Tail(@)]
SpecRecover == Spec /\ WF_cve_vars(UpdateRuns) /\ WF_xml_parser(Ingests)

\* The place of a feed file in the walk of update().
PlaceOf(xml_file) ==
  CHOOSE i \in 1..Len(FeedOrder) : FeedOrder[i] = xml_file

\* update() has just raised what the ingestion of xml_file raised, and
\* enough loads are left to come back to that file.
FailedIngestion(xml_file) ==
  /\ pc = "idle"
  /\ ev.op = "rollback"
  /\ ev.xml_file = xml_file
  /\ ev.exc \in {"ParseError", "AssertionError", "ValueError"}
  /\ incidents = MaxIncidents
  /\ loads + PlaceOf(xml_file) <= MaxLoads

Top(t) == stack[t][Len(stack[t])]
At(t, at) == stack[t] # << >> /\ Top(t).at = at
SetTop(t, frame) == [stack EXCEPT ![t] = [@ EXCEPT ![Len(@)] = frame]]

\* The call of thread t ends with exception e ("None": it returns).  An
\* outermost call hands the result to the thread; a call made from inside
\* fn hands it to that fn, which goes on if the call returned or if it
\* handles the exception, and otherwise lets the exception pass.
Unwind(t, e, handled) ==
  LET rest == SubSeq(stack[t], 1, Len(stack[t]) - 1) IN
    IF rest = << >>
    THEN /\ stack' = [stack EXCEPT ![t] = << >>]
         /\ outcome' = [outcome EXCEPT ![t] = e]
    ELSE /\ stack' = [stack EXCEPT ![t] =
                        IF e = "None" \/ handled THEN rest
                        ELSE [rest EXCEPT ![Len(rest)] = Frame("except", e)]]
         /\ UNCHANGED outcome

\* The store object alone: no feed is loaded, the world stands still.
TxInit ==
  /\ CveInit
  /\ sends_last_modified = FALSE

\* What a specification of the store object alone leaves as it is.
feed_vars ==
  << foreign_keys, fs, now, sends_last_modified, incidents, pc, idx, loads,
     xml_parser, exc, raised, seen, net_vars >>

\* Thread t calls a transactional method, from outside or from inside the
\* fn of a call it has open.
Call(t) ==
  /\ calls < MaxCalls
  /\ Len(stack[t]) < MaxDepth
  /\ stack[t] = << >> \/ At(t, "fn")
  /\ calls' = calls + 1
  /\ stack' = [stack EXCEPT ![t] = Append(@, Frame("with", "None"))]
  /\ ev' = NoEvent
  /\ UNCHANGED << lock, outcome, db, cur, tx_vars, feed_vars >>

\* with self.__lock: the thread goes on once it has the lock.
Enter(t) ==
  /\ At(t, "with")
  /\ CanAcquire(lock, t)
  /\ lock' = acquire(lock, t)
  /\ stack' = SetTop(t, Frame("if_busy", "None"))
  /\ ev' = NoEvent
  /\ UNCHANGED << outcome, calls, db, cur, tx_vars, feed_vars >>

\* A busy check inside the try statement: the finally clause runs.
BusyExitInTry(b, c) == << FALSE, FALSE >>

\* __busy and __cursor after "raise RuntimeError": the statement stands
\* before the try, so the finally clause does not run.
BusyExit(b, c) == << b, c >>

\* if self.__busy: raise RuntimeError("The database is busy"); the with
\* statement releases the lock on the way out.
RaiseBusy(t) ==
  /\ At(t, "if_busy")
  /\ busy
  /\ lock' = release(lock)
  /\ busy' = BusyExit(busy, cursor)[1]
  /\ cursor' = BusyExit(busy, cursor)[2]
  /\ \E handled \in BOOLEAN : Unwind(t, "RuntimeError", handled)
  /\ ev' = [ op |-> "busy", thread |-> t, depth |-> Len(stack[t]),
             busy |-> busy, cursor |-> cursor, lock |-> lock,
             db |-> db, cur |-> cur ]
  /\ UNCHANGED << calls, db, cur, tx_start, feed_vars >>

\* self.__busy = True; self.__cursor = self.__db.cursor(); fn is called.
Begin(t) ==
  /\ At(t, "if_busy")
  /\ ~busy
  /\ busy' = TRUE
  /\ cursor' = TRUE
  /\ tx_start' = db
  /\ stack' = SetTop(t, Frame("fn", "None"))
  /\ ev' = NoEvent
  /\ UNCHANGED << lock, outcome, calls, db, cur, feed_vars >>

\* fn executes a statement through self.__cursor, here the INSERT INTO
\* files of __download; on None the attribute lookup fails.
Execute(t) ==
  /\ At(t, "fn")
  /\ \E xml_file \in {CVE_XML_FILES[1], VENDOR_XML_FILE} :
       IF cursor
       THEN /\ cur' = InsertFile(cur, xml_file, t, asctime(t))
            /\ UNCHANGED stack
       ELSE /\ stack' = SetTop(t, Frame("except", "AttributeError"))
            /\ UNCHANGED cur
  /\ ev' = NoEvent
  /\ UNCHANGED << lock, outcome, calls, db, tx_vars, feed_vars >>

\* fn raises.
FnRaise(t) ==
  /\ At(t, "fn")
  /\ stack' = SetTop(t, Frame("except", "IOError"))
  /\ ev' = NoEvent
  /\ UNCHANGED << lock, outcome, calls, db, cur, tx_vars, feed_vars >>

\* fn returns: commit, the finally clause, the lock is released.
Return(t) ==
  /\ At(t, "fn")
  /\ db' = commit(db, cur)[1]
  /\ cur' = commit(db, cur)[2]
  /\ cursor' = FALSE
  /\ busy' = FALSE
  /\ lock' = release(lock)
  /\ Unwind(t, "None", FALSE)
  /\ ev' = [ op |-> "return", thread |-> t ]
  /\ UNCHANGED << calls, tx_start, feed_vars >>

\* The except clause: rollback, raise; the finally clause; the lock is
\* released.
Except(t) ==
  /\ At(t, "except")
  /\ db' = rollback(db, cur)[1]
  /\ cur' = rollback(db, cur)[2]
  /\ cursor' = FALSE
  /\ busy' = FALSE
  /\ lock' = release(lock)
  /\ \E handled \in BOOLEAN : Unwind(t, Top(t).exc, handled)
  /\ ev' = [ op |-> "raise", thread |-> t ]
  /\ UNCHANGED << calls, tx_start, feed_vars >>

TxNext ==
  \E t \in Threads :
    \/ Call(t)
    \/ Enter(t)
    \/ RaiseBusy(t)
    \/ Begin(t)
    \/ Execute(t)
    \/ FnRaise(t)
    \/ Return(t)
    \/ Except(t)

SpecTx == TxInit /\ [][TxNext]_cve_vars

\* The threads are scheduled and fn comes to an end: a thread that can
\* take the lock, test the busy flag, or leave fn by returning or raising
\* does so in the end.
TxFairness ==
  \A t \in Threads :
    /\ WF_cve_vars(Enter(t))
    /\ WF_cve_vars(RaiseBusy(t))
    /\ WF_cve_vars(Begin(t))
    /\ WF_cve_vars(Return(t) \/ Except(t))

SpecTxFair == SpecTx /\ TxFairness
\* ------------------------------------------- claims about _transaction

\* The last step raised the busy error to a call made from inside fn.
ReentrantBusy == ev.op = "busy" /\ ev.depth >= 2

\* C5: a transactional call made from inside the fn of another one, by the
\* same thread, gets the lock at once (no deadlock) and is answered with
\* the busy error; that leaves __busy, __cursor, the tables and the outer
\* call's hold on the lock as they were, and the outer call can go on to
\* its commit or its rollback.
C5_ReentrantCallRaisesBusy ==
  /\ \A t \in Threads :
       (At(t, "with") /\ Len(stack[t]) >= 2) =>
         (lock.owner = t /\ ENABLED Enter(t))
  /\ \A t \in Threads :
       (At(t, "if_busy") /\ Len(stack[t]) >= 2) =>
         (busy /\ ENABLED RaiseBusy(t) /\ ~ENABLED Begin(t))
  /\ ReentrantBusy =>
       /\ ev.busy /\ busy
       /\ ev.cursor /\ cursor
       /\ cur = ev.cur /\ db = ev.db
       /\ lock = [ owner |-> ev.thread, count |-> ev.lock.count - 1 ]
       /\ lock.count >= 1
       /\ Len(stack[ev.thread]) = ev.depth - 1
       /\ \/ /\ At(ev.thread, "fn")
             /\ ENABLED Return(ev.thread)
          \/ /\ At(ev.thread, "except")
             /\ Top(ev.thread).exc = "RuntimeError"
             /\ ENABLED Except(ev.thread)

\* C5's case: fn had written a row when its inner call was refused, and
\* fn handled the error.
C5_Witness ==
  /\ ReentrantBusy
  /\ At(ev.thread, "fn")
  /\ cur # db
  /\ busy /\ cursor

\* Thread t has called while another thread holds the lock.
CallsDuringTransaction(t) ==
  At(t, "with") /\ lock.owner \notin {Nobody, t}

\* C6 as stated: a thread that calls a transactional method while another
\* thread's transaction is in flight does not wait: it goes on at once, to
\* be answered with the busy error.
C6_ConcurrentCallFailsWithBusy ==
  \A t \in Threads :
    (CallsDuringTransaction(t) /\ busy) => ENABLED Enter(t)

\* C6, amended: a thread that calls while another thread holds the lock
\* waits at the with statement until the lock is released; the lock is
\* held as long as the store is busy, so only the thread that owns the
\* lock ever tests the busy flag, and the busy error goes only to a call
\* made from inside fn by the thread of the transaction in flight.
C6_ConcurrentCallWaitsForLock ==
  /\ \A t \in Threads : CallsDuringTransaction(t) => ~ENABLED Enter(t)
  /\ busy => lock.owner # Nobody
  /\ \A t \in Threads :
       (stack[t] # << >> /\ Top(t).at # "with") => lock.owner = t
  /\ (ev.op = "busy") =>
       /\ ev.depth >= 2
       /\ ev.lock.owner = ev.thread
       /\ ev.lock.count >= 2

\* C6's case: one thread is inside fn, with rows written, while another
\* has called and stands at the with statement.
C6_Witness ==
  \E t, u \in Threads :
    /\ t # u
    /\ At(t, "fn") /\ busy /\ cur # db
    /\ CallsDuringTransaction(u)
    /\ lock.owner = t

\* Thread t has a call whose body is running: fn, or the except clause
\* on the way out of it.
InBody(t) ==
  \E i \in 1..Len(stack[t]) : stack[t][i].at \in {"fn", "except"}

\* No two threads are in the body of a transactional call, and while one
\* is, the store is busy and the lock is that thread's.
Serialized ==
  /\ \A t, u \in Threads : (InBody(t) /\ InBody(u)) => t = u
  /\ \A t \in Threads : InBody(t) => (busy /\ lock.owner = t)

\* C22: transactional calls on one store are serialized across threads:
\* never are the bodies of two threads' calls running, a thread that calls
\* while another thread's transaction is in flight does not go on before
\* that one has committed or rolled back, and in the end it runs its own
\* body.
C22_CallsAreSerialized ==
  /\ []Serialized
  /\ [][\A t \in Threads :
          (CallsDuringTransaction(t) /\ ~CallsDuringTransaction(t)') =>
            /\ ev'.op \in {"return", "raise"}
            /\ ev'.thread # t
            /\ ~busy'
            /\ At(t, "with")']_cve_vars
  /\ \A t \in Threads : CallsDuringTransaction(t) ~> At(t, "fn")

\* C22's case: a thread that had to wait for another thread's transaction
\* is now in its own body, and the other transaction's rows are committed.
C22_Witness ==
  \E t \in Threads :
    /\ At(t, "fn")
    /\ lock.owner = t
    /\ calls >= 2
    /\ db.files # {}
    /\ tx_start = db
    /\ \A u \in Threads \ {t} : stack[u] = << >> /\ outcome[u] = "None"
\* ------------------------------------------------------- CPE names (cpe.py)

\* A CPE name is a sequence of one-character strings.  A function that can
\* raise returns [exc, val]: the exception ("None": it returned) and the
\* value.
Returned(val) == [ exc |-> "None", val |-> val ]
Raised(e) == [ exc |-> e, val |-> << >> ]

Cpe22Prefix == << "c", "p", "e", ":", "/" >>
Cpe23Prefix == << "c", "p", "e", ":", "2", ".", "3", ":" >>
HexDigits ==
  Digits \cup {"a", "b", "c", "d", "e", "f", "A", "B", "C", "D", "E", "F"}

\* A get_cpe_version that takes every name beginning with cpe: and not
\* with cpe:2.3: for a 2.2 name.
get_cpe_version_by_colon(cpe) ==
  IF StartsWith(cpe, Cpe23Prefix) THEN Returned("2.3")
  ELSE IF StartsWith(cpe, << "c", "p", "e", ":" >>) THEN Returned("2.2")
  ELSE Raised("ValueError")

\* get_cpe_version, for a string argument.
get_cpe_version(cpe) ==
  IF StartsWith(cpe, Cpe22Prefix) THEN Returned("2.2")
  ELSE IF StartsWith(cpe, Cpe23Prefix) THEN Returned("2.3")
  ELSE Raised("ValueError")

\* s[a:b] of Python, a and b counted from 0 and not negative.
Slice(s, a, b) ==
  IF a >= Len(s) \/ b <= a THEN << >>
  ELSE SubSeq(s, a + 1, IF b > Len(s) THEN Len(s) ELSE b)

\* chr(int(h, 16)) as one element of the output: the characters the name
\* functions treat specially as themselves, any other as \xXX.
Chr(h) ==
  CASE h = << "2", "0" >> -> " "
    [] h = << "2", "5" >> -> "%"
    [] h = << "2", "a" >> \/ h = << "2", "A" >> -> "*"
    [] h = << "3", "a" >> \/ h = << "3", "A" >> -> ":"
    [] h = << "5", "c" >> \/ h = << "5", "C" >> -> "\\"
    [] OTHER -> "\\x" \o h[1] \o h[2]

\* cpe22_unquote of cpe.py, from the test of its while loop on: i is the
\* index last read, r the output so far.
RECURSIVE cpe22_unquote_loop(_, _, _)
cpe22_unquote_loop(s, i, r) ==
  IF ~(i < Len(s)) THEN Returned(r)
  ELSE
    LET j == i + 1 IN
      IF j >= Len(s) THEN Raised("IndexError")
      ELSE
        LET c == s[j + 1]
            h == Slice(s, j + 1, j + 2)
        IN
          IF c = "\\" THEN cpe22_unquote_loop(s, j, r \o << "\\", "\\" >>)
          ELSE IF c # "%" THEN cpe22_unquote_loop(s, j, Append(r, c))
          ELSE IF Len(h) > 0 /\ h[1] = "%"
          THEN cpe22_unquote_loop(s, j + 1, Append(r, c))
          ELSE IF Len(h) # 2 \/ h[1] \notin HexDigits \/ h[2] \notin HexDigits
          THEN cpe22_unquote_loop(s, j, Append(r, c))
          ELSE cpe22_unquote_loop(s, j, r \o << "\\", Chr(h) >>)

cpe22_unquote(s) ==
  IF s = << >> THEN Returned(s) ELSE cpe22_unquote_loop(s, -1, << >>)

\* str.strip(): blanks at both ends go.
RECURSIVE lstrip(_)
lstrip(s) == IF s # << >> /\ Head(s) = " " THEN lstrip(Tail(s)) ELSE s
RECURSIVE rstrip(_)
rstrip(s) ==
  IF s # << >> /\ s[Len(s)] = " " THEN rstrip(SubSeq(s, 1, Len(s) - 1))
  ELSE s
strip(s) == rstrip(lstrip(s))

\* s.split(":"), and _cpe23_split.split(s), which does not split at a colon
\* that follows a backslash.  field: the field being read; prev: the
\* character before the next one.
RECURSIVE split_colon(_, _, _, _)
split_colon(s, field, prev, escapes) ==
  IF s = << >> THEN << field >>
  ELSE IF Head(s) = ":" /\ ~(escapes /\ prev = "\\")
  THEN << field >> \o split_colon(Tail(s), << >>, ":", escapes)
  ELSE split_colon(Tail(s), Append(field, Head(s)), Head(s), escapes)

\* [cpe22_unquote(x.strip()) for x in fields]
RECURSIVE unquote_all(_)
unquote_all(fields) ==
  IF fields = << >> THEN Returned(<< >>)
  ELSE
    LET first == cpe22_unquote(strip(Head(fields))) IN
      IF first.exc # "None" THEN first
      ELSE
        LET rest == unquote_all(Tail(fields)) IN
          IF rest.exc # "None" THEN rest
          ELSE Returned(<< first.val >> \o rest.val)

\* The number of fields of a parsed name.
CpeFields == 11

parse_cpe(cpe) ==
  LET ver == get_cpe_version(cpe) IN
    IF ver.exc # "None" THEN ver
    ELSE IF ver.val = "2.2"
    THEN
      LET parsed == unquote_all(split_colon(Slice(cpe, 5, Len(cpe)),
                                            << >>, "/", FALSE))
      IN IF parsed.exc # "None" THEN parsed
         ELSE IF Len(parsed.val) < CpeFields
         THEN Returned(parsed.val \o
                       [i \in 1..(CpeFields - Len(parsed.val)) |-> << "*" >>])
         ELSE parsed
    ELSE
      LET fields == split_colon(Slice(cpe, 8, Len(cpe)), << >>, ":", TRUE)
          parsed == [i \in 1..Len(fields) |-> strip(fields[i])]
      IN IF Len(parsed) # CpeFields THEN Raised("ValueError")
         ELSE Returned(parsed)
\* ---------------------------------------------------- CPE dictionary feed

XML_FILE == "official-cpe-dictionary_v2.3.xml"

\* unparse_cpe23 without the escaping of colons: the names below have none.
RECURSIVE join_colon(_)
join_colon(fields) ==
  IF Len(fields) = 1 THEN fields[1]
  ELSE fields[1] \o << ":" >> \o join_colon(Tail(fields))

Wild == << "*" >>

Name23(part, vendor, product, version) ==
  Cpe23Prefix \o
  join_colon(<< << part >>, << vendor >>, << product >>, << version >>,
                Wild, Wild, Wild, Wild, Wild, Wild, Wild >>)
Name22(part, vendor, product, version) ==
  Cpe22Prefix \o
  join_colon(<< << part >>, << vendor >>, << product >>, << version >> >>)

\* The characters of the language tags below, in the order of their codes.
CharOrder == << "-", "B", "D", "E", "G", "S", "U", "d", "e", "n" >>
Ord(c) == CHOOSE i \in 1..Len(CharOrder) : CharOrder[i] = c

\* a < b for two strings, as sorted() compares them.
RECURSIVE LexLess(_, _)
LexLess(a, b) ==
  IF b = << >> THEN FALSE
  ELSE IF a = << >> THEN TRUE
  ELSE IF Head(a) # Head(b) THEN Ord(Head(a)) < Ord(Head(b))
  ELSE LexLess(Tail(a), Tail(b))

\* sorted(S)[0]
LexMin(S) == CHOOSE a \in S : \A b \in S \ {a} : LexLess(a, b)

en_US == << "e", "n", "-", "U", "S" >>
en_GB == << "e", "n", "-", "G", "B" >>
de_DE == << "d", "e", "-", "D", "E" >>

\* A <cpe-item>: the name attribute, the name of its cpe23-item, the
\* deprecated attribute (NULL: absent), and the titles as pairs of
\* xml:lang and text, the text a sequence of characters.
CpeItem(name, name23, deprecated, titles) ==
  [ name |-> name, name23 |-> name23, deprecated |-> deprecated,
    titles |-> titles ]

ItemV1 ==
  CpeItem(Name22("a", "v", "p", "1"), Name23("a", "v", "p", "1"), NULL,
          { << en_US, << "P", " ", "1" >> >>,
            << de_DE, << "P", " ", "e", "i", "n", "s" >> >> })
ItemV1Deprecated ==
  CpeItem(Name22("a", "v", "p", "1"), Name23("a", "v", "p", "1"), "true",
          { << en_GB, << "P", " ", "o", "n", "e" >> >>,
            << de_DE, << "P", " ", "e", "i", "n", "s" >> >> })
ItemV2 ==
  CpeItem(Name22("a", "v", "p", "2"), Name23("a", "v", "p", "2"), "false",
          { << de_DE, << "P", " ", "z", "w", "e", "i" >> >> })
ItemO ==
  CpeItem(Name22("o", "v", "q", "1"), Name23("o", "v", "q", "1"), NULL,
          { << en_US, << "Q", " ", "1" >> >> })
\* A 2.3 name of four fields given as texts, the others wildcards.
Name23Of(part, vendor, product, version) ==
  Cpe23Prefix \o
  join_colon(<< part, vendor, product, version,
                Wild, Wild, Wild, Wild, Wild, Wild, Wild >>)

\* two releases whose version texts name the same number
ItemV1_0 ==
  CpeItem(Cpe22Prefix \o << "a", ":", "v", ":", "p", ":", "1", ".", "0" >>,
          Name23Of(<< "a" >>, << "v" >>, << "p" >>, << "1", ".", "0" >>),
          NULL, { << en_US, << "P", " ", "1", ".", "0" >> >> })
ItemV1_00 ==
  CpeItem(Cpe22Prefix \o << "a", ":", "v", ":", "p", ":", "1", ".", "0", "0" >>,
          Name23Of(<< "a" >>, << "v" >>, << "p" >>, << "1", ".", "0", "0" >>),
          NULL, { << en_US, << "P", " ", "1", ".", "0", "0" >> >> })
\* an item whose 2.3 name has ten fields
ItemShort ==
  CpeItem(Name22("a", "v", "r", "1"),
          Cpe23Prefix \o join_colon(<< << "a" >>, << "v" >>, << "r" >>,
                                       Wild, Wild, Wild, Wild, Wild, Wild,
                                       Wild >>),
          NULL, { << en_US, << "R" >> >> })

\* What NIST may serve as the dictionary: three editions, one that cannot
\* be ingested, one that is not well-formed.
CpeDocs ==
  { Doc(<< ItemV1, ItemO >>, TRUE),
    Doc(<< ItemV1_0, ItemV1_00, ItemO >>, TRUE),
    Doc(<< ItemV1Deprecated, ItemV2 >>, TRUE),
    Doc(<< ItemV2, ItemShort >>, TRUE),
    Doc(<< ItemV1 >>, FALSE) }

\* ------------------------------------------------------------------ CPEDB

\* The title stored for an item: en-US, else the first en-* in the order of
\* the tags, else the first of all.
cpe_title(titles) ==
  LET langs == { p[1] : p \in titles }
      text(lang) == (CHOOSE p \in titles : p[1] = lang)[2]
      english == { l \in langs : StartsWith(l, << "e", "n", "-" >>) }
  IN IF en_US \in langs THEN Returned(text(en_US))
     ELSE IF english # {} THEN Returned(text(LexMin(english)))
     ELSE IF langs = {} THEN Raised("IndexError")
     ELSE Returned(text(LexMin(langs)))

\* The columns of cpe but rowid and deprecated are declared STRING, a type
\* name that gives a column of SQLite NUMERIC affinity: a text that reads
\* as a number is stored as that number, any other text as it is.  A
\* stored value is [numeric, text], text being the digits of the number as
\* SQLite prints it.  Numbers here are unsigned decimals without exponent
\* and short enough to be exact; blanks around them are ignored.
DecimalChars == Digits \cup {"."}
IsDecimal(s) ==
  /\ s # << >>
  /\ s[1] \in DecimalChars
  /\ \A i \in 1..Len(s) : s[i] \in DecimalChars
  /\ \E i \in 1..Len(s) : s[i] \in Digits
  /\ Cardinality({i \in 1..Len(s) : s[i] = "."}) <= 1

RECURSIVE StripZerosLeft(_)
StripZerosLeft(s) ==
  IF s # << >> /\ Head(s) = "0" THEN StripZerosLeft(Tail(s)) ELSE s
RECURSIVE StripZerosRight(_)
StripZerosRight(s) ==
  IF s # << >> /\ s[Len(s)] = "0"
  THEN StripZerosRight(SubSeq(s, 1, Len(s) - 1))
  ELSE s

\* The number a decimal text names, as SQLite prints it: 1.0 and 01 are
\* the integer 1, 2.10 is 2.1, .5 is 0.5.
DecimalText(s) ==
  LET dot == IF \E i \in 1..Len(s) : s[i] = "."
             THEN CHOOSE i \in 1..Len(s) : s[i] = "."
             ELSE Len(s) + 1
      whole == StripZerosLeft(SubSeq(s, 1, dot - 1))
      fraction == StripZerosRight(SubSeq(s, dot + 1, Len(s)))
  IN (IF whole = << >> THEN << "0" >> ELSE whole)
     \o (IF fraction = << >> THEN << >> ELSE << "." >> \o fraction)

\* What a STRING column holds after text s was written to it, and what a
\* text operand becomes when it is compared with such a column.
SqlStored(s) ==
  LET stripped == strip(s) IN
    IF IsDecimal(stripped)
    THEN [ numeric |-> TRUE, text |-> DecimalText(stripped) ]
    ELSE [ numeric |-> FALSE, text |-> s ]

\* What fetchall() hands to Python for a stored value.
Fetch(v) == IF v.numeric THEN << "number", v.text >> ELSE v.text

\* int(item.attrib.get("deprecated", "false") == "true")
cpe_deprecated(attr) == IF attr = "true" THEN 1 ELSE 0

CpeRow(rowid, item, title, parsed) ==
  [ rowid |-> rowid, name23 |-> SqlStored(item.name23),
    name22 |-> SqlStored(item.name), title |-> SqlStored(title),
    deprecated |-> cpe_deprecated(item.deprecated),
    part |-> SqlStored(parsed[1]), vendor |-> SqlStored(parsed[2]),
    product |-> SqlStored(parsed[3]), version |-> SqlStored(parsed[4]),
    update |-> SqlStored(parsed[5]), edition |-> SqlStored(parsed[6]),
    language |-> SqlStored(parsed[7]), sw_edition |-> SqlStored(parsed[8]),
    target_sw |-> SqlStored(parsed[9]), target_hw |-> SqlStored(parsed[10]),
    other |-> SqlStored(parsed[11]) ]

\* The loop of update() over the cpe-item elements: one INSERT INTO cpe
\* each; name23 is UNIQUE, and the statement has 15 parameters.
RECURSIVE load_cpe_items(_, _)
load_cpe_items(t, items) ==
  IF items = << >> THEN [ t |-> t, exc |-> "None" ]
  ELSE
    LET item == Head(items)
        title == cpe_title(item.titles)
        parsed == parse_cpe(item.name23)
    IN
      IF title.exc # "None" THEN [ t |-> t, exc |-> title.exc ]
      ELSE IF parsed.exc # "None" THEN [ t |-> t, exc |-> parsed.exc ]
      ELSE IF Len(parsed.val) # CpeFields
      THEN [ t |-> t, exc |-> "ProgrammingError" ]
      ELSE IF \E r \in t.cpe : r.name23 = SqlStored(item.name23)
      THEN [ t |-> t, exc |-> "IntegrityError" ]
      ELSE load_cpe_items(
             [ t EXCEPT !.cpe = @ \cup
                 { CpeRow(NextRowid(t.cpe), item, title.val, parsed.val) } ],
             Tail(items))

\* The database file of a CPEDB: whether it exists, whether it has the
\* cpe table, and the rows of the table.
NoDatabase == [ exists |-> FALSE, has_schema |-> FALSE, cpe |-> {} ]
EmptyDatabase == [ exists |-> TRUE, has_schema |-> FALSE, cpe |-> {} ]

\* What update() hands back to _transaction, and what it did.
Updated(t, file, e, if_modified_since, downloaded, reloaded) ==
  [ t |-> t, file |-> file, exc |-> e,
    if_modified_since |-> if_modified_since, downloaded |-> downloaded,
    reloaded |-> reloaded ]

\* "if tree is None: tree = etree.parse(xml_file)": the tree update()
\* ingests, given the tree it got from the file it found and the file as
\* it is now.  NoParser: etree.parse raises.
TreeToLoad(tree, file) ==
  IF tree.open THEN tree
  ELSE IF file.doc.wellformed THEN Parser(file.doc) ELSE NoParser

\* CPEDB.update, the body that runs inside the transaction.  t: the
\* tables; file: the local XML file; resp: the server's answer; clock: the
\* time.
cpe_update(t, file, force, resp, clock) ==
  LET parses == file.exists /\ file.openable /\ file.doc.wellformed
      tree == IF parses THEN Parser(file.doc) ELSE NoParser
      \* the request is conditional if the local file could be parsed
      ims == IF parses THEN asctime(file.mtime) ELSE << >>
      src == resp.code = 200
  IN
    IF resp.code # 200 /\ ~(parses /\ resp.code = 304)
    THEN Updated(t, file, "HTTPError", ims, FALSE, FALSE)
    ELSE IF src /\ ~resp.complete
    THEN Updated(t, File(Doc(<< >>, FALSE), clock, TRUE), "IOError", ims,
                 TRUE, FALSE)
    ELSE
      LET file1 == IF src THEN File(resp.doc, clock, TRUE) ELSE file IN
        IF ~(force \/ src)
        THEN Updated(t, file1, "None", ims, src, FALSE)
        ELSE
          LET tree1 == TreeToLoad(tree, file1) IN
            IF ~tree1.open
            THEN Updated(t, file1, "ParseError", ims, src, FALSE)
            ELSE
              LET out == load_cpe_items([t EXCEPT !.cpe = {}], tree1.items)
              IN Updated(out.t, file1, out.exc, ims, src, TRUE)

\* What the dictionary server may answer at time t.
CpeResponses(t) ==
  { Response(304, NoHeader, Doc(<< >>, TRUE), TRUE),
    Response(404, NoHeader, Doc(<< >>, TRUE), TRUE),
    Response(200, HttpDate(t), Doc(<< >>, FALSE), FALSE) }
  \cup { Response(200, HttpDate(t), d, TRUE) : d \in CpeDocs }

\* The columns resolve() compares, in the order of the fields of a name.
CpeColumns ==
  << "part", "vendor", "product", "version", "update", "edition",
     "language", "sw_edition", "target_sw", "target_hw", "other" >>

\* "column = ?" of SQLite for a STRING column and a text parameter: the
\* parameter is converted as a value written to the column is.
SqlEquals(value, param) == value = SqlStored(param)

\* CPEDB.resolve, the body that runs inside the transaction.  The SELECT
\* has one placeholder for the name and one for each of the first five
\* (2.2) or eleven (2.3) fields that is not "*", and params has the name
\* and every field that is not "*".
resolve(t, cpe, include_deprecated) ==
  LET ver == get_cpe_version(cpe)
      parsed == parse_cpe(cpe)
  IN
    IF ver.exc # "None" THEN Raised(ver.exc)
    ELSE IF parsed.exc # "None" THEN Raised(parsed.exc)
    ELSE
      LET fields == parsed.val
          params == {i \in 1..Len(fields) : fields[i] # Wild}
          columns == IF ver.val = "2.3" THEN CpeColumns
                     ELSE SubSeq(CpeColumns, 1, 5)
          compared == {i \in 1..Len(columns) : fields[i] # Wild}
          name == IF ver.val = "2.3" THEN "name23" ELSE "name22"
      IN
        IF params = {} THEN Returned({cpe})
        ELSE IF compared = {} THEN Raised("OperationalError")
        ELSE IF compared # params THEN Raised("ProgrammingError")
        ELSE
          Returned(
            { Fetch(r[name]) :
                r \in { q \in t.cpe :
                          /\ include_deprecated \/ q.deprecated = 0
                          /\ \/ SqlEquals(q[name], cpe)
                             \/ \A i \in compared :
                                  SqlEquals(q[columns[i]], fields[i]) } })

\* A release of one edition.
Name23Edition ==
  Cpe23Prefix \o
  join_colon(<< << "a" >>, << "v" >>, << "p" >>, << "1" >>, Wild, << "e" >>,
                Wild, Wild, Wild, Wild, Wild >>)

\* The names callers resolve: a release, a release written with a
\* decimal point, every release of a product, a name of wildcards only,
\* a release of one edition, and a 2.2 name.
ResolveNames ==
  { Name23("a", "v", "p", "1"),
    Name23Of(<< "a" >>, << "v" >>, << "p" >>, << "1", ".", "0" >>),
    Name23("a", "v", "p", "*"),
    Name23("*", "*", "*", "*"),
    Name23Edition,
    Name22("a", "v", "p", "1") }

\* The keyword arguments search() knows.
SearchColumns == {"title"} \cup {CpeColumns[i] : i \in 1..Len(CpeColumns)}

\* LIKE of SQLite compares ASCII letters without regard to case.
UpperLetters ==
  << "A", "B", "C", "D", "E", "F", "G", "H", "I", "J", "K", "L", "M",
     "N", "O", "P", "Q", "R", "S", "T", "U", "V", "W", "X", "Y", "Z" >>
LowerLetters ==
  << "a", "b", "c", "d", "e", "f", "g", "h", "i", "j", "k", "l", "m",
     "n", "o", "p", "q", "r", "s", "t", "u", "v", "w", "x", "y", "z" >>
Lower(c) ==
  IF \E i \in 1..26 : UpperLetters[i] = c
  THEN LowerLetters[CHOOSE i \in 1..26 : UpperLetters[i] = c]
  ELSE c

\* "text LIKE pattern": % stands for any characters, _ for any one.
RECURSIVE SqlLike(_, _)
SqlLike(text, pattern) ==
  IF pattern = << >> THEN text = << >>
  ELSE IF Head(pattern) = "%"
  THEN \/ SqlLike(text, Tail(pattern))
       \/ text # << >> /\ SqlLike(Tail(text), pattern)
  ELSE /\ text # << >>
       /\ Head(pattern) = "_" \/ Lower(Head(pattern)) = Lower(Head(text))
       /\ SqlLike(Tail(text), Tail(pattern))

\* "%%%s%%" % value.replace("%", "%%")
RECURSIVE DoublePercent(_)
DoublePercent(s) ==
  IF s = << >> THEN << >>
  ELSE (IF Head(s) = "%" THEN << "%", "%" >> ELSE << Head(s) >>)
       \o DoublePercent(Tail(s))
LikeParam(value) == << "%" >> \o DoublePercent(value) \o << "%" >>

\* CPEDB.search, the body that runs inside the transaction.  kwargs: the
\* keyword arguments as pairs of name and value.  The WHERE clause has one
\* LIKE for each known keyword whose value is not "*"; with none of them
\* the statement ends after WHERE and does not compile.
search(t, kwargs) ==
  LET given == {kv[1] : kv \in kwargs}
      constraints == {kv \in kwargs : kv[2] # Wild}
  IN
    IF given \ SearchColumns # {} THEN Raised("TypeError")
    ELSE IF constraints = {} THEN Raised("OperationalError")
    ELSE
      Returned(
        { Fetch(r.name23) :
            r \in { q \in t.cpe :
                      \A kv \in constraints :
                        SqlLike(q[kv[1]].text, LikeParam(kv[2])) } })

\* The searches callers make: by one field, by two, by a version written
\* with a decimal point, by part of a title, in capitals, by a field let
\* be "*", by nothing, and by a keyword search() does not know.
SearchArguments ==
  { { << "vendor", << "v" >> >> },
    { << "part", << "a" >> >>, << "version", << "1" >> >> },
    { << "version", << "1", ".", "0" >> >> },
    { << "title", << "P", " " >> >> },
    { << "product", << "P" >> >> },
    { << "version", Wild >> },
    { },
    { << "name23", << "a" >> >> } }

\* No CPEDB object yet: the database file is missing or empty, the XML
\* file is missing.
CpeInit ==
  /\ db \in {NoDatabase, EmptyDatabase}
  /\ cur = db
  /\ foreign_keys = FALSE
  /\ fs = [f \in {XML_FILE} |-> NoFile]
  /\ now = 1
  /\ sends_last_modified = TRUE
  /\ incidents = 0
  /\ pc = "init"
  /\ idx = 0
  /\ loads = 0
  /\ busy = FALSE
  /\ cursor = FALSE
  /\ xml_parser = NoParser
  /\ exc = "None"
  /\ raised = "None"
  /\ tx_start = db
  /\ ev = NoEvent
  /\ seen = NoneSeen
  /\ NoNetwork
  /\ lock = FreeLock
  /\ stack = [t \in Threads |-> << >>]
  /\ outcome = [t \in Threads |-> "None"]
  /\ calls = 0

\* What the CPEDB specification leaves as it is: update() is a single
\* step of one thread, so the transaction's own variables are at rest
\* whenever a step begins or ends.
cpe_rest ==
  << thread_vars, foreign_keys, sends_last_modified, incidents, idx, busy,
     cursor, xml_parser, exc, seen, net_vars >>

\* One call of update() through _transaction: commit if the body returns,
\* rollback if it raises.
CpeTransaction(out, open_pc, failed_pc, failed_db) ==
  /\ fs' = [fs EXCEPT ![XML_FILE] = out.file]
  /\ IF out.exc = "None"
     THEN /\ db' = commit(db, out.t)[1]
          /\ cur' = commit(db, out.t)[2]
          /\ pc' = open_pc
     ELSE /\ db' = failed_db
          /\ cur' = failed_db
          /\ pc' = failed_pc
  /\ raised' = out.exc

\* History: the call of update() before this one, if it was the last step.
LastUpdate ==
  IF ev.op = "cpe_update"
  THEN [ op |-> "cpe_update", force |-> ev.force, code |-> ev.resp.code,
         doc |-> ev.resp.doc, ok |-> raised = "None" ]
  ELSE NoEvent

\* CPEDB.__init__: __initialize creates the cpe table if the file has
\* none, and then update(force = True) fills it.  If that raises the
\* connection is closed and, with is_new true, the file deleted.
CpeOpen ==
  /\ pc = "init"
  /\ loads < MaxUpdates
  /\ loads' = loads + 1
  /\ now' = now + 1
  /\ LET is_new == db.exists
         is_empty == ~db.has_schema
         created == [ exists |-> TRUE, has_schema |-> TRUE, cpe |-> db.cpe ]
     IN
       IF is_empty
       THEN \E resp \in CpeResponses(now') :
              LET out == cpe_update(created, fs[XML_FILE], TRUE, resp, now')
              IN /\ CpeTransaction(out, "idle", "init",
                                   IF is_new THEN NoDatabase ELSE created)
                 /\ tx_start' = created
                 /\ ev' = [ op |-> "cpe_update", force |-> TRUE,
                            file |-> fs[XML_FILE], resp |-> resp,
                            if_modified_since |-> out.if_modified_since,
                            downloaded |-> out.downloaded,
                            reloaded |-> out.reloaded, before |-> created,
                            prev |-> LastUpdate, existed |-> db.exists ]
       ELSE /\ pc' = "idle"
            /\ raised' = "None"
            /\ ev' = NoEvent
            /\ UNCHANGED << db, cur, fs, tx_start >>
  /\ UNCHANGED cpe_rest

\* A caller invokes update(force).
CpeUpdate ==
  /\ pc = "idle"
  /\ loads < MaxUpdates
  /\ loads' = loads + 1
  /\ now' = now + 1
  /\ \E force \in BOOLEAN, resp \in CpeResponses(now') :
       LET out == cpe_update(cur, fs[XML_FILE], force, resp, now')
       IN /\ CpeTransaction(out, "idle", "idle", db)
          /\ tx_start' = db
          /\ ev' = [ op |-> "cpe_update", force |-> force,
                     file |-> fs[XML_FILE], resp |-> resp,
                     if_modified_since |-> out.if_modified_since,
                     downloaded |-> out.downloaded,
                     reloaded |-> out.reloaded, before |-> cur,
                     prev |-> LastUpdate ]
  /\ UNCHANGED cpe_rest

\* A caller invokes resolve(cpe, include_deprecated): a transaction that
\* writes nothing.
CpeResolve ==
  /\ pc = "idle"
  /\ \E cpe \in ResolveNames, include_deprecated \in BOOLEAN :
       LET result == resolve(cur, cpe, include_deprecated)
           out == [ t |-> cur, file |-> fs[XML_FILE], exc |-> result.exc ]
       IN /\ CpeTransaction(out, "idle", "idle", db)
          /\ tx_start' = db
          /\ ev' = [ op |-> "resolve", cpe |-> cpe,
                     include_deprecated |-> include_deprecated,
                     result |-> result, before |-> cur ]
  /\ UNCHANGED << cpe_rest, now, loads >>

\* A caller invokes search(**kwargs): a transaction that writes nothing.
CpeSearch ==
  /\ pc = "idle"
  /\ \E kwargs \in SearchArguments :
       LET result == search(cur, kwargs)
           out == [ t |-> cur, file |-> fs[XML_FILE], exc |-> result.exc ]
       IN /\ CpeTransaction(out, "idle", "idle", db)
          /\ tx_start' = db
          /\ ev' = [ op |-> "search", kwargs |-> kwargs,
                     result |-> result, before |-> cur ]
  /\ UNCHANGED << cpe_rest, now, loads >>

\* close(): the object is gone; the program may make another.
CpeClose ==
  /\ pc = "idle"
  /\ loads < MaxUpdates
  /\ pc' = "init"
  /\ ev' = NoEvent
  /\ UNCHANGED << cpe_rest, db, cur, fs, now, loads, raised, tx_start >>

CpeNext ==
  \/ CpeOpen
  \/ CpeUpdate
  \/ CpeResolve
  \/ CpeSearch
  \/ CpeClose

SpecCpe == CpeInit /\ [][CpeNext]_cve_vars

\* ------------------------------------------------------ claims about CPEDB

\* The rows update() stores for a dictionary: those of its items, in the
\* order of the file.
RowsOfDictionary(doc) ==
  load_cpe_items([NoDatabase EXCEPT !.cpe = {}], doc.items).t.cpe

\* C10: when update() finds a local XML file, asks the server whether it is
\* outdated and is served a dictionary, then after the call the file holds
\* that dictionary and the cpe table, as seen and as committed, holds
\* exactly the rows of that dictionary.
C10_UpdateLoadsDownloadedDictionary ==
  (ev.op = "cpe_update" /\ ev.if_modified_since # << >>
     /\ ev.resp.code = 200 /\ raised = "None") =>
    /\ fs[XML_FILE].doc = ev.resp.doc
    /\ cur.cpe = RowsOfDictionary(ev.resp.doc)
    /\ db.cpe = RowsOfDictionary(ev.resp.doc)

\* The last two steps were calls of update(force = True) that returned,
\* and the server served the same dictionary to both: the second call got
\* the document the first got, or the answer that nothing has changed.
ForcedTwiceSameFeed ==
  /\ ev.op = "cpe_update" /\ ev.force /\ raised = "None"
  /\ ev.prev.op = "cpe_update" /\ ev.prev.force /\ ev.prev.ok
  /\ ev.prev.code = 200
  /\ \/ ev.resp.code = 304
     \/ ev.resp.code = 200 /\ ev.resp.doc = ev.prev.doc

\* C11: update(force = True) run twice on the same feed leaves the cpe
\* table after the second run with the rows it had after the first: the
\* same number of rows, the same values in every column.
C11_ForcedUpdateTwiceSameTable ==
  ForcedTwiceSameFeed =>
    /\ cur.cpe = ev.before.cpe
    /\ db.cpe = ev.before.cpe


\* The names the cpe table holds, as fetched.
StoredNames == { Fetch(r.name23) : r \in cur.cpe }

\* The fields of a 2.3 name that parses.
FieldsOf(name) == parse_cpe(name).val

\* resolve() was called for a 2.3 name that has a field other than "*",
\* deprecated names included.
ResolveStep ==
  /\ ev.op = "resolve"
  /\ ev.include_deprecated
  /\ get_cpe_version(ev.cpe) = Returned("2.3")
  /\ parse_cpe(ev.cpe).exc = "None"
  /\ \E i \in 1..CpeFields : FieldsOf(ev.cpe)[i] # Wild

\* C14: resolve() with deprecated names included, for a 2.3 name with a
\* field other than "*", returns exactly the stored 2.3 names that have
\* the queried value in every field the query does not leave "*", and the
\* queried name itself if it is stored.
C14_ResolveReturnsNamesEqualInEveryField ==
  ResolveStep =>
    ev.result =
      Returned({ n \in StoredNames :
                   \/ n = ev.cpe
                   \/ \A i \in 1..CpeFields :
                        FieldsOf(ev.cpe)[i] # Wild =>
                          FieldsOf(n)[i] = FieldsOf(ev.cpe)[i] })


\* search() was called with keywords it knows.
SearchStep ==
  /\ ev.op = "search"
  /\ \A kv \in ev.kwargs : kv[1] \in SearchColumns

\* The text a stored row has in a field: the title, or the field of the
\* 2.3 name.
FieldText(r, field) ==
  IF field = "title" THEN r.title.text
  ELSE FieldsOf(r.name23.text)[CHOOSE i \in 1..CpeFields :
                                 CpeColumns[i] = field]

\* sub in s
Contains(s, sub) ==
  \E i \in 0..(Len(s) - Len(sub)) : SubSeq(s, i + 1, i + Len(sub)) = sub

\* C15: search() returns exactly the stored 2.3 names that have, in every
\* field supplied with a value other than "*", the supplied value as a
\* substring; with no such field it returns every stored name.
C15_SearchReturnsNamesContainingEveryValue ==
  SearchStep =>
    ev.result =
      Returned({ Fetch(r.name23) :
                   r \in { q \in cur.cpe :
                             \A kv \in ev.kwargs :
                               kv[2] # Wild =>
                                 Contains(FieldText(q, kv[1]), kv[2]) } })


\* The constructor has just failed: its forced update() raised.
OpenFailed ==
  /\ pc = "init"
  /\ ev.op = "cpe_update"
  /\ raised # "None"

\* C26: when the constructor of CPEDB fails, a database file that existed
\* before the call is still on disk afterwards, and a database file the
\* call created is not.
C26_FailedOpenDeletesOnlyItsOwnFile ==
  OpenFailed => (db.exists <=> ev.existed)

\* ---------------------------------------------------- CPE names (vulnid.py)

\* A cpe22_unquote that reads two characters after a % and decodes them.
RECURSIVE cpe22_unquote_decoding(_, _, _)
cpe22_unquote_decoding(s, i, r) ==
  IF ~(i < Len(s) - 1) THEN Returned(r)
  ELSE
    LET j == i + 1
        c == s[j + 1]
        h == Slice(s, j + 1, j + 3)
    IN
      IF c = "\\"
      THEN cpe22_unquote_decoding(s, j, r \o << "\\", "\\" >>)
      ELSE IF c # "%" THEN cpe22_unquote_decoding(s, j, Append(r, c))
      ELSE IF Len(h) > 0 /\ h[1] = "%"
      THEN cpe22_unquote_decoding(s, j + 1, Append(r, c))
      ELSE IF Len(h) # 2 \/ h[1] \notin HexDigits \/ h[2] \notin HexDigits
      THEN cpe22_unquote_decoding(s, j, Append(r, c))
      ELSE cpe22_unquote_decoding(s, j + 2, r \o << "\\", Chr(h) >>)

\* A cpe22_unquote that takes %% for two percent signs.
RECURSIVE cpe22_unquote_no_pairs(_, _, _)
cpe22_unquote_no_pairs(s, i, r) ==
  IF ~(i < Len(s) - 1) THEN Returned(r)
  ELSE
    LET j == i + 1
        c == s[j + 1]
    IN
      IF c = "\\"
      THEN cpe22_unquote_no_pairs(s, j, r \o << "\\", "\\" >>)
      ELSE cpe22_unquote_no_pairs(s, j, Append(r, c))

\* cpe22_unquote of vulnid.py, from the test of its while loop on: i is
\* the index last read, r the output so far.  h is s[i+1:i+2], one
\* character at most.
RECURSIVE vulnid_cpe22_unquote_loop(_, _, _)
vulnid_cpe22_unquote_loop(s, i, r) ==
  IF ~(i < Len(s) - 1) THEN Returned(r)
  ELSE
    LET j == i + 1
        c == s[j + 1]
        h == Slice(s, j + 1, j + 2)
    IN
      IF c = "\\"
      THEN vulnid_cpe22_unquote_loop(s, j, r \o << "\\", "\\" >>)
      ELSE IF c # "%" THEN vulnid_cpe22_unquote_loop(s, j, Append(r, c))
      ELSE IF Len(h) > 0 /\ h[1] = "%"
      THEN vulnid_cpe22_unquote_loop(s, j + 1, Append(r, c))
      ELSE IF Len(h) # 2 \/ h[1] \notin HexDigits \/ h[2] \notin HexDigits
      THEN vulnid_cpe22_unquote_loop(s, j, Append(r, c))
      ELSE vulnid_cpe22_unquote_loop(s, j, r \o << "\\", Chr(h) >>)

\* "if not s: return s"
vulnid_cpe22_unquote(s) ==
  IF s = << >> THEN Returned(s) ELSE vulnid_cpe22_unquote_loop(s, -1, << >>)

\* [cpe22_unquote(x.strip()) for x in fields]
RECURSIVE vulnid_unquote_all(_)
vulnid_unquote_all(fields) ==
  IF fields = << >> THEN Returned(<< >>)
  ELSE
    LET first == vulnid_cpe22_unquote(strip(Head(fields))) IN
      IF first.exc # "None" THEN first
      ELSE
        LET rest == vulnid_unquote_all(Tail(fields)) IN
          IF rest.exc # "None" THEN rest
          ELSE Returned(<< first.val >> \o rest.val)

\* parsed.extend("*" * (11 - len(parsed)))
Stars(n) == [i \in 1..n |-> Wild]

\* A parse_cpe that returns the fields a name has and appends none.
parse_cpe_unpadded(cpe) ==
  LET ver == get_cpe_version(cpe) IN
    IF ver.exc # "None" THEN ver
    ELSE IF ver.val = "2.2"
    THEN vulnid_unquote_all(split_colon(Slice(cpe, 5, Len(cpe)),
                                        << >>, "/", FALSE))
    ELSE
      LET fields == split_colon(Slice(cpe, 8, Len(cpe)), << >>, ":", TRUE)
      IN Returned([i \in 1..Len(fields) |-> strip(fields[i])])

vulnid_parse_cpe(cpe) ==
  LET ver == get_cpe_version(cpe) IN
    IF ver.exc # "None" THEN ver
    ELSE IF ver.val = "2.2"
    THEN
      LET parsed == vulnid_unquote_all(split_colon(Slice(cpe, 5, Len(cpe)),
                                                   << >>, "/", FALSE))
      IN IF parsed.exc # "None" THEN parsed
         ELSE IF Len(parsed.val) < CpeFields
         THEN Returned(parsed.val \o Stars(CpeFields - Len(parsed.val)))
         ELSE parsed
    ELSE
      LET fields == split_colon(Slice(cpe, 8, Len(cpe)), << >>, ":", TRUE)
          parsed == [i \in 1..Len(fields) |-> strip(fields[i])]
      IN IF Len(parsed) # CpeFields THEN Raised("ValueError")
         ELSE Returned(parsed)

\* x.replace(":", r"\:")
RECURSIVE escape_colons(_)
escape_colons(x) ==
  IF x = << >> THEN << >>
  ELSE (IF Head(x) = ":" THEN << "\\", ":" >> ELSE << Head(x) >>)
       \o escape_colons(Tail(x))

\* ":".join(...), also of no fields
RECURSIVE join(_)
join(fields) ==
  IF fields = << >> THEN << >>
  ELSE IF Len(fields) = 1 THEN fields[1]
  ELSE fields[1] \o << ":" >> \o join(Tail(fields))

unparse_cpe23(parsed) ==
  Cpe23Prefix \o join([i \in 1..Len(parsed) |-> escape_colons(parsed[i])])

cpe22to23(cpe) ==
  LET parsed == vulnid_parse_cpe(cpe) IN
    IF parsed.exc # "None" THEN parsed
    ELSE Returned(unparse_cpe23(parsed.val))

\* The list of columns in resolve_cpe: "edition" and "language" have no
\* comma between them, so Python joins the two literals into one item.
VulnidColumns ==
  << "part", "vendor", "product", "version", "update", "editionlanguage",
     "sw_edition", "target_sw", "target_hw", "other" >>

\* VulnerabilityDB.resolve_cpe, the body that runs inside the
\* transaction, on a cpe table t of the same columns.  params has the name
\* and every field that is neither empty nor "*"; the SELECT has one
\* placeholder for the name and one for each i below len(columns) whose
\* field is neither empty nor "*".  SQLite compiles the statement before
\* it counts the parameters.
resolve_cpe(t, cpe, include_deprecated) ==
  LET ver == get_cpe_version(cpe)
      parsed == vulnid_parse_cpe(cpe)
  IN
    IF ver.exc # "None" THEN Raised(ver.exc)
    ELSE IF parsed.exc # "None" THEN Raised(parsed.exc)
    ELSE
      LET fields == parsed.val
          params == {i \in 1..Len(fields) :
                       fields[i] # << >> /\ fields[i] # Wild}
          columns == VulnidColumns
          compared == {i \in 1..Len(columns) :
                         fields[i] # << >> /\ fields[i] # Wild}
          name == IF ver.val = "2.3" THEN "name23" ELSE "name22"
      IN
        IF params = {} THEN Returned({cpe})
        ELSE IF compared = {} THEN Raised("OperationalError")
        ELSE IF \E i \in compared : columns[i] \notin SearchColumns
             THEN Raised("OperationalError")
        ELSE IF Cardinality(compared) # Cardinality(params)
             THEN Raised("ProgrammingError")
        ELSE
          Returned(
            { Fetch(r[name]) :
                r \in { q \in t.cpe :
                          /\ include_deprecated \/ q.deprecated = 0
                          /\ \/ SqlEquals(q[name], cpe)
                             \/ \A i \in compared :
                                  SqlEquals(q[columns[i]], fields[i]) } })

\* ---------------------------------------------- the name functions, applied

\* The characters of the texts: two hexadecimal digits, the characters
\* the functions treat specially, and the blank.
CodecChars == {"a", "3", "%", "\\", ":", " "}

\* The texts of at most n of these characters.
Texts(n) == UNION { [1..k -> CodecChars] : k \in 0..n }

\* Texts the documentation of the functions speaks of: foo%01bar, 100%,
\* a:vendor:product, and an encoded colon.
Examples ==
  { << "f", "o", "o", "%", "0", "1", "b", "a", "r" >>,
    << "1", "0", "0", "%" >>,
    << "a", ":", "v", "e", "n", "d", "o", "r", ":",
       "p", "r", "o", "d", "u", "c", "t" >>,
    << "%", "3", "a" >> }

\* How a text may begin: with the prefix of a 2.2 name, of a 2.3 name,
\* with part of one, with none.
Heads ==
  { << >>, Cpe22Prefix, Cpe23Prefix, << "c", "p", "e", ":" >>,
    << "c", "p", "e", ":", "2", ".", "3" >> }

\* n fields "*" appended to a name.
RECURSIVE Pad(_)
Pad(n) == IF n = 0 THEN << >> ELSE << ":", "*" >> \o Pad(n - 1)

CodecInputs ==
  { h \o t \o Pad(n) :
      h \in Heads, t \in Texts(MaxLen) \cup Examples, n \in 0..MaxPad }

\* A caller has a text; nothing else exists.
CodecInit ==
  /\ db = NoDatabase
  /\ cur = db
  /\ foreign_keys = FALSE
  /\ fs = [f \in {XML_FILE} |-> NoFile]
  /\ now = 1
  /\ sends_last_modified = TRUE
  /\ incidents = 0
  /\ idx = 0
  /\ loads = 0
  /\ busy = FALSE
  /\ cursor = FALSE
  /\ xml_parser = NoParser
  /\ exc = "None"
  /\ raised = "None"
  /\ tx_start = db
  /\ lock = FreeLock
  /\ stack = [t \in Threads |-> << >>]
  /\ outcome = [t \in Threads |-> "None"]
  /\ calls = 0
  /\ seen = NoneSeen
  /\ NoNetwork
  /\ pc = "input"
  /\ \E s \in CodecInputs :
       ev = [ op |-> "input", input |-> s, arg |-> s,
              result |-> Returned(s), first |-> Returned(s) ]

\* What the name functions leave as it is: everything but the value in
\* the caller's hands.
codec_rest ==
  << thread_vars, db, cur, foreign_keys, fs, now, sends_last_modified,
     incidents, idx, loads, busy, cursor, xml_parser, exc, raised,
     tx_start, seen, net_vars >>

\* The caller applies fn, named op, to the value it holds.
Apply(op, result, next_pc) ==
  /\ ev' = [ev EXCEPT !.op = op, !.arg = ev.result.val, !.result = result]
  /\ pc' = next_pc
  /\ UNCHANGED codec_rest

\* get_cpe_version(text)
CodecVersion ==
  /\ pc = "input"
  /\ Apply("get_cpe_version", get_cpe_version(ev.result.val), "done")

\* cpe22_unquote(text)
CodecUnquote ==
  /\ pc = "input"
  /\ Apply("cpe22_unquote", vulnid_cpe22_unquote(ev.result.val), "done")

\* parse_cpe(text), of the caller's text or of a name it has converted;
\* the caller keeps the fields of the first.
CodecParse ==
  /\ pc \in {"input", "converted"}
  /\ ev.result.exc = "None"
  /\ LET result == vulnid_parse_cpe(ev.result.val) IN
       /\ ev' = [ev EXCEPT !.op = "parse_cpe", !.arg = ev.result.val,
                           !.result = result,
                           !.first = IF pc = "input" THEN result ELSE @]
       /\ pc' = IF pc = "input" THEN "parsed" ELSE "reparsed"
       /\ UNCHANGED codec_rest

\* unparse_cpe23(fields), of the fields parse_cpe returned
CodecUnparse ==
  /\ pc = "parsed"
  /\ ev.result.exc = "None"
  /\ Apply("unparse_cpe23", Returned(unparse_cpe23(ev.result.val)),
           "unparsed")

\* cpe22to23(text), of the caller's text or of a name unparse_cpe23 made
CodecConvert ==
  /\ pc \in {"input", "unparsed"}
  /\ Apply("cpe22to23", cpe22to23(ev.result.val),
           IF pc = "input" THEN "done" ELSE "converted")

CodecNext ==
  \/ CodecVersion
  \/ CodecUnquote
  \/ CodecParse
  \/ CodecUnparse
  \/ CodecConvert

SpecCodec == CodecInit /\ [][CodecNext]_cve_vars


\* --------------------------------------- claims about the name functions

\* The number of components of a 2.2 name.
Components22(n) ==
  1 + Cardinality({i \in (Len(Cpe22Prefix) + 1)..Len(n) : n[i] = ":"})

\* A 2.2 name as the dictionary has them: the prefix, at most eleven
\* components, no backslash.
Valid22(n) ==
  /\ StartsWith(n, Cpe22Prefix)
  /\ Components22(n) <= CpeFields
  /\ \A i \in 1..Len(n) : n[i] # "\\"

\* C16: for a valid 2.2 name n, parse_cpe(n) succeeds, the conversion
\* cpe22to23(unparse_cpe23(parse_cpe(n))) succeeds, and parse_cpe of the
\* converted name succeeds with the same eleven fields as parse_cpe(n).
C16_RoundTripKeepsFields ==
  Valid22(ev.input) =>
    /\ pc \in {"parsed", "converted"} => ev.result.exc = "None"
    /\ pc = "reparsed" =>
         /\ ev.result.exc = "None"
         /\ ev.result = ev.first
         /\ Len(ev.result.val) = CpeFields

\* C16's case: a 2.2 name with a percent sign, a blank and fewer than
\* eleven components has gone through the conversion and was parsed again.
C16_Witness ==
  /\ pc = "reparsed"
  /\ Valid22(ev.input)
  /\ Components22(ev.input) \in 2..(CpeFields - 1)
  /\ \E i, j \in 1..Len(ev.input) : ev.input[i] = "%" /\ ev.input[j] = " "
  /\ ev.first.val[1] # Wild


\* cpe22_unquote was applied to the caller's text.
UnquoteStep == ev.op = "cpe22_unquote"

\* At i the text has %XX, XX two hexadecimal digits, and the % is not the
\* second of a pair %%.
EscapeAt(s, i) ==
  /\ i + 2 <= Len(s)
  /\ s[i] = "%"
  /\ s[i + 1] \in HexDigits
  /\ s[i + 2] \in HexDigits
  /\ i = 1 \/ s[i - 1] # "%"

\* C17: cpe22_unquote replaces every %XX, XX two hexadecimal digits, by a
\* backslash and the character of that value: the output has the
\* character after a backslash and has the text %XX no more.
C17_UnquoteDecodesEscapes ==
  UnquoteStep =>
    \A i \in 1..Len(ev.arg) :
      EscapeAt(ev.arg, i) =>
        LET h == << ev.arg[i + 1], ev.arg[i + 2] >> IN
          /\ ev.result.exc = "None"
          /\ Contains(ev.result.val, << "\\", Chr(h) >>)
          /\ ~Contains(ev.result.val, << "%" >> \o h)


\* The text has a % followed by two hexadecimal digits.
HasHexEscape(s) ==
  \E i \in 1..Len(s) :
    /\ i + 2 <= Len(s)
    /\ s[i] = "%"
    /\ s[i + 1] \in HexDigits
    /\ s[i + 2] \in HexDigits

\* The text with every backslash doubled.
RECURSIVE DoubleBackslashes(_)
DoubleBackslashes(s) ==
  IF s = << >> THEN << >>
  ELSE (IF Head(s) = "\\" THEN << "\\", "\\" >> ELSE << Head(s) >>)
       \o DoubleBackslashes(Tail(s))

\* The text with, from the left, every pair %% made one %.
RECURSIVE HalvePercentPairs(_)
HalvePercentPairs(s) ==
  IF s = << >> THEN << >>
  ELSE IF Len(s) >= 2 /\ s[1] = "%" /\ s[2] = "%"
  THEN << "%" >> \o HalvePercentPairs(Tail(Tail(s)))
  ELSE << Head(s) >> \o HalvePercentPairs(Tail(s))

\* C18 as stated: in a text without %XX, cpe22_unquote passes every % and
\* the characters after it through unchanged, returns the empty text
\* unchanged, and doubles every backslash.
C18_UnquoteKeepsEveryPercent ==
  (UnquoteStep /\ ~HasHexEscape(ev.arg)) =>
    ev.result = Returned(DoubleBackslashes(ev.arg))

\* C18, amended: in a text without %XX, cpe22_unquote makes every pair %%
\* one %, passes every other % and every other character through
\* unchanged, returns the empty text unchanged, and doubles every
\* backslash.
C18_UnquoteKeepsPercentButPairs ==
  (UnquoteStep /\ ~HasHexEscape(ev.arg)) =>
    /\ ev.result = Returned(DoubleBackslashes(HalvePercentPairs(ev.arg)))
    /\ ev.arg = << >> => ev.result = Returned(ev.arg)
    /\ (~Contains(ev.arg, << "%", "%" >>)) =>
         ev.result = Returned(DoubleBackslashes(ev.arg))

\* C18's case: cpe22_unquote was given a text with a pair %% and no %XX,
\* and returned it one character shorter.
C18_Witness ==
  /\ UnquoteStep
  /\ ~HasHexEscape(ev.arg)
  /\ Contains(ev.arg, << "%", "%" >>)
  /\ Len(ev.result.val) = Len(ev.arg) - 1


\* The i-th of the parts of s that the positions seps separate.
Part(s, seps, i) ==
  LET nth(k) == CHOOSE j \in seps : Cardinality({c \in seps : c <= j}) = k
      first == IF i = 1 THEN 1 ELSE nth(i - 1) + 1
      last == IF i = Cardinality(seps) + 1 THEN Len(s) ELSE nth(i) - 1
  IN SubSeq(s, first, last)

\* Where the colons of a text are, and those no backslash stands before.
Colons(s) == {j \in 1..Len(s) : s[j] = ":"}
UnescapedColons(s) == {j \in Colons(s) : j = 1 \/ s[j - 1] # "\\"}

\* parse_cpe was applied to the caller's text.
ParseStep == pc = "parsed"

\* C19: parse_cpe of a 2.2 name with k < 11 components returns eleven
\* fields, the k components decoded and in order, then 11 - k fields "*";
\* parse_cpe of a 2.3 name returns its fields if they are exactly eleven
\* and raises ValueError otherwise.
C19_ParsePadsAndCounts ==
  ParseStep =>
    /\ (StartsWith(ev.arg, Cpe22Prefix)
          /\ Components22(ev.arg) < CpeFields) =>
         LET body == SubSeq(ev.arg, Len(Cpe22Prefix) + 1, Len(ev.arg))
             k == Components22(ev.arg)
         IN /\ ev.result.exc = "None"
            /\ Len(ev.result.val) = CpeFields
            /\ \A i \in 1..k :
                 ev.result.val[i] =
                   vulnid_cpe22_unquote(strip(Part(body, Colons(body), i))).val
            /\ \A i \in (k + 1)..CpeFields : ev.result.val[i] = Wild
    /\ StartsWith(ev.arg, Cpe23Prefix) =>
         LET body == SubSeq(ev.arg, Len(Cpe23Prefix) + 1, Len(ev.arg))
             seps == UnescapedColons(body)
         IN IF Cardinality(seps) + 1 = CpeFields
            THEN ev.result =
                   Returned([i \in 1..CpeFields |->
                               strip(Part(body, seps, i))])
            ELSE ev.result = Raised("ValueError")

\* C19's case: parse_cpe was given a 2.2 name of three components, none
\* of them "*", and appended eight fields.
C19_Witness ==
  /\ ParseStep
  /\ StartsWith(ev.arg, Cpe22Prefix)
  /\ Components22(ev.arg) = 3
  /\ ev.result.exc = "None"
  /\ \A i \in 1..3 : ev.result.val[i] \notin {Wild, << >>}
  /\ ev.result.val[4] = Wild


\* get_cpe_version was applied to the caller's text.
VersionStep == ev.op = "get_cpe_version"

\* The text begins with the characters of p.
Begins(s, p) == Len(s) >= Len(p) /\ \A i \in 1..Len(p) : s[i] = p[i]

\* C20: get_cpe_version returns "2.2" for every text that begins with
\* cpe:/, "2.3" for every text that begins with cpe:2.3:, and raises
\* ValueError for every other text; no text begins with both.
C20_VersionIsTotal ==
  VersionStep =>
    /\ Begins(ev.arg, Cpe22Prefix) => ev.result = Returned("2.2")
    /\ Begins(ev.arg, Cpe23Prefix) => ev.result = Returned("2.3")
    /\ (~Begins(ev.arg, Cpe22Prefix) /\ ~Begins(ev.arg, Cpe23Prefix)) =>
         ev.result = Raised("ValueError")
    /\ ~(Begins(ev.arg, Cpe22Prefix) /\ Begins(ev.arg, Cpe23Prefix))

\* C20's case: get_cpe_version was given a text that begins with cpe: and
\* with neither prefix, and raised.
C20_Witness ==
  /\ VersionStep
  /\ Begins(ev.arg, << "c", "p", "e", ":" >>)
  /\ Len(ev.arg) > Len(Cpe23Prefix)
  /\ ev.result = Raised("ValueError")

\* C21: parse_cpe splits a 2.2 name only at colons no backslash stands
\* before: with k < 11 such parts the result is those k parts, decoded, a
\* colon after a backslash kept inside its field, and then 11 - k fields
\* "*".
C21_Parse22SplitsAtUnescapedColons ==
  (ParseStep /\ StartsWith(ev.arg, Cpe22Prefix)) =>
    LET body == SubSeq(ev.arg, Len(Cpe22Prefix) + 1, Len(ev.arg))
        seps == UnescapedColons(body)
        k == Cardinality(seps) + 1
    IN k < CpeFields =>
         /\ ev.result.exc = "None"
         /\ Len(ev.result.val) = CpeFields
         /\ \A i \in 1..k :
              ev.result.val[i] =
                vulnid_cpe22_unquote(strip(Part(body, seps, i))).val
         /\ \A i \in (k + 1)..CpeFields : ev.result.val[i] = Wild

\* C27: for every text, cpe22_unquote of cpe.py returns what cpe22_unquote
\* of vulnid.py returns, or raises the same kind of error, and so does
\* parse_cpe of cpe.py against parse_cpe of vulnid.py.
C27_CodecCopiesAgree ==
  /\ UnquoteStep => cpe22_unquote(ev.arg) = ev.result
  /\ ev.op = "parse_cpe" => parse_cpe(ev.arg) = ev.result

\* C28: for a valid 2.3 name and any cpe table, resolve_cpe of
\* VulnerabilityDB returns, without raising, the set resolve of CPEDB
\* returns.
C28_ResolversAgree ==
  (/\ ev.op = "resolve"
   /\ get_cpe_version(ev.cpe) = Returned("2.3")
   /\ vulnid_parse_cpe(ev.cpe).exc = "None") =>
    LET result == resolve_cpe(ev.before, ev.cpe, ev.include_deprecated)
    IN result.exc = "None" /\ result = ev.result

\* ------------------------------------------------------------- forwarders

\* A forwarder has no store.
NoStore ==
  /\ db = NoDatabase
  /\ cur = db
  /\ foreign_keys = FALSE
  /\ fs = [f \in {XML_FILE} |-> NoFile]
  /\ now = 1
  /\ sends_last_modified = TRUE
  /\ incidents = 0
  /\ pc = "none"
  /\ idx = 0
  /\ loads = 0
  /\ busy = FALSE
  /\ cursor = FALSE
  /\ xml_parser = NoParser
  /\ exc = "None"
  /\ raised = "None"
  /\ tx_start = db
  /\ ev = NoEvent
  /\ seen = NoneSeen
  /\ lock = FreeLock
  /\ stack = [t \in Threads |-> << >>]
  /\ outcome = [t \in Threads |-> "None"]
  /\ calls = 0

store_rest ==
  << thread_vars, db, cur, foreign_keys, fs, now, sends_last_modified,
     incidents, pc, idx, loads, busy, cursor, xml_parser, exc, raised,
     tx_start, ev, seen >>

\* A socket or the end of a pipe, as the program holds it.  open: the
\* program has not closed it; inbox: the bytes that have arrived and were
\* not read yet; eof: the other end has closed, a read past the inbox
\* returns the empty string; err: the connection is broken, a read or a
\* write raises; sent: how many bytes the other end has sent, the k-th of
\* them being k; got: the bytes the program has written, in order.
Unopened ==
  [ open |-> FALSE, inbox |-> << >>, eof |-> FALSE, err |-> FALSE,
    sent |-> 0, got |-> << >> ]
Opened == [ Unopened EXCEPT !.open = TRUE ]

\* thread.start_new_thread(self.forward, (fd1, fd2)): the thread is about
\* to read.
Forward(fd1, fd2) ==
  [ pc |-> "read", fd1 |-> fd1, fd2 |-> fd2, data |-> << >> ]

\* read(fd1) in the loop of forward: recv or os.read waits for bytes, for
\* the end of the stream or for an error; a descriptor this program has
\* shut down and closed raises too.  next: where the loop goes with the
\* data it has read.
ForwardRead(t, next) ==
  LET th == fwd[t]
      f == fds[th.fd1]
  IN
    /\ th.pc = "read"
    /\ \/ /\ ~f.open \/ f.err
          /\ fwd' = [fwd EXCEPT ![t].pc = "close1"]
          /\ UNCHANGED fds
       \/ /\ f.open /\ ~f.err /\ f.inbox # << >>
          /\ \E k \in 1..Len(f.inbox) :
               LET data == SubSeq(f.inbox, 1, k) IN
                 /\ fds' = [fds EXCEPT
                              ![th.fd1].inbox = SubSeq(@, k + 1, Len(@))]
                 /\ fwd' = [fwd EXCEPT ![t].data = data, ![t].pc = next]
       \/ /\ f.open /\ ~f.err /\ f.inbox = << >> /\ f.eof
          /\ fwd' = [fwd EXCEPT ![t].data = << >>, ![t].pc = next]
          /\ UNCHANGED fds
    /\ UNCHANGED << listener, store_rest >>

\* write(fd2, data) in the loop of forward: all of data is written, or
\* the write raises and the loop ends.
ForwardWrite(t, fails) ==
  LET th == fwd[t] IN
    /\ th.pc = "write"
    /\ IF fails
       THEN /\ fwd' = [fwd EXCEPT ![t].pc = "close1", ![t].data = << >>]
            /\ UNCHANGED fds
       ELSE /\ fds' = [fds EXCEPT ![th.fd2].got = @ \o th.data]
            /\ fwd' = [fwd EXCEPT ![t].pc = "read", ![t].data = << >>]
    /\ UNCHANGED << listener, store_rest >>

\* After the loop: close(fd1), then close(fd2), then the thread ends.
\* close() shuts a socket down before it closes it, which wakes a thread
\* that waits in recv on it.
ForwardClose1(t) ==
  /\ fwd[t].pc = "close1"
  /\ fds' = [fds EXCEPT ![fwd[t].fd1].open = FALSE]
  /\ fwd' = [fwd EXCEPT ![t].pc = "close2"]
  /\ UNCHANGED << listener, store_rest >>

ForwardClose2(t) ==
  /\ fwd[t].pc = "close2"
  /\ fds' = [fds EXCEPT ![fwd[t].fd2].open = FALSE]
  /\ fwd' = [fwd EXCEPT ![t].pc = "done"]
  /\ UNCHANGED << listener, store_rest >>

\* The bytes sent so far to the descriptors of a set.
RECURSIVE SentTo(_)
SentTo(descriptors) ==
  IF descriptors = {} THEN 0
  ELSE LET fd == CHOOSE x \in descriptors : TRUE
       IN fds[fd].sent + SentTo(descriptors \ {fd})

\* The other end of descriptor fd sends its next byte.
PeerSends(fd) ==
  /\ fds[fd].open /\ ~fds[fd].eof /\ ~fds[fd].err
  /\ SentTo(DOMAIN fds) < MaxBytes
  /\ fds' = [fds EXCEPT ![fd].inbox = Append(@, fds[fd].sent + 1),
                        ![fd].sent = @ + 1]
  /\ UNCHANGED << listener, fwd, store_rest >>

\* The other end of descriptor fd closes.
PeerCloses(fd) ==
  /\ fds[fd].open /\ ~fds[fd].eof /\ ~fds[fd].err
  /\ fds' = [fds EXCEPT ![fd].eof = TRUE]
  /\ UNCHANGED << listener, fwd, store_rest >>

\* The connection behind descriptor fd breaks.
NetError(fd) ==
  /\ fds[fd].open /\ ~fds[fd].err
  /\ fds' = [fds EXCEPT ![fd].err = TRUE]
  /\ UNCHANGED << listener, fwd, store_rest >>

\* ------------------------------------------------------------- TCPBouncer

\* listener: where run() stands, how many connections it has accepted,
\* the socket of the last one and what became of the connect to the
\* target.  The forwarding threads of one connection are followed, the first whose
\* target answers; the threads of another connection share nothing with
\* them.
BouncerFds == {"s", "d"}

BouncerInit ==
  /\ NoStore
  /\ listener = [ pc |-> "accept", accepted |-> 0, s |-> "none",
                  target |-> "none" ]
  /\ fds = [fd \in BouncerFds |-> Unopened]
  /\ fwd = << >>

\* run(): s, addr = self.listener.accept()
BouncerAccept ==
  /\ listener.pc = "accept"
  /\ listener.accepted < MaxConns
  /\ listener' = [ pc |-> "connect", accepted |-> listener.accepted + 1,
                   s |-> "open", target |-> "none" ]
  /\ UNCHANGED << fds, fwd, store_rest >>

\* run(): d.connect(self.target) returns, and the two threads start.
BouncerConnect ==
  /\ listener.pc = "connect"
  /\ listener' = [listener EXCEPT !.pc = "accept", !.target = "connected"]
  /\ IF fwd = << >>
     THEN /\ fds' = [fd \in BouncerFds |-> Opened]
          /\ fwd' = << Forward("s", "d"), Forward("d", "s") >>
     ELSE UNCHANGED << fds, fwd >>
  /\ UNCHANGED store_rest

\* run(): d.connect(self.target) raises socket.error: self.close(s) and
\* continue.
BouncerConnectFails ==
  /\ listener.pc = "connect"
  /\ listener' = [listener EXCEPT !.pc = "accept", !.s = "closed",
                                  !.target = "refused"]
  /\ UNCHANGED << fds, fwd, store_rest >>

\* A loop that goes on whatever it has read.
NeverEnds(data) == FALSE

\* forward(): not data
NotData(data) == data = << >>

\* sendall on a socket that is closed or broken raises socket.error.
SendFails(fd) == ~fds[fd].open \/ fds[fd].err

BouncerRead(t) == ForwardRead(t, "test")

\* forward(): if not data: break, else on to the write.
BouncerTest(t) ==
  /\ fwd[t].pc = "test"
  /\ fwd' = [fwd EXCEPT ![t].pc = IF NotData(fwd[t].data) THEN "close1"
                                  ELSE "write"]
  /\ UNCHANGED << listener, fds, store_rest >>

BouncerWrite(t) == ForwardWrite(t, SendFails(fwd[t].fd2))

BouncerForward(t) ==
  /\ t \in DOMAIN fwd
  /\ \/ BouncerRead(t)
     \/ BouncerTest(t)
     \/ BouncerWrite(t)
     \/ ForwardClose1(t)
     \/ ForwardClose2(t)

BouncerNext ==
  \/ BouncerAccept
  \/ BouncerConnect
  \/ BouncerConnectFails
  \/ \E t \in 1..2 : BouncerForward(t)
  \/ \E fd \in BouncerFds : fwd # << >> /\ PeerSends(fd)
  \/ \E fd \in BouncerFds : fwd # << >> /\ PeerCloses(fd)
  \/ \E fd \in BouncerFds : fwd # << >> /\ NetError(fd)

SpecBouncer == BouncerInit /\ [][BouncerNext]_cve_vars

\* Each thread that can take a step takes one; run() gets to its next
\* line.  Nothing is owed by the two ends of the connection.
BouncerFairness ==
  /\ \A t \in 1..2 : WF_cve_vars(BouncerForward(t))
  /\ WF_cve_vars(BouncerConnect \/ BouncerConnectFails)
SpecBouncerFair == SpecBouncer /\ BouncerFairness

\* ------------------------------------------------------------ RemoteShell

\* The forwarding threads of the first connection are followed: one from
\* the socket to the shell's stdin, one from the shell's stdout to the
\* socket.  The two ends of the pipes are file descriptors (int).
ShellFds == {"s", "stdin", "stdout"}

ShellInit ==
  /\ NoStore
  /\ listener = [ pc |-> "accept", accepted |-> 0 ]
  /\ fds = [fd \in ShellFds |-> Unopened]
  /\ fwd = << >>

\* run(): accept, os.popen4(self.shell), and the two threads start.
ShellAccept ==
  /\ listener.pc = "accept"
  /\ listener.accepted < MaxConns
  /\ listener' = [listener EXCEPT !.accepted = @ + 1]
  /\ IF fwd = << >>
     THEN /\ fds' = [fd \in ShellFds |-> Opened]
          /\ fwd' = << Forward("s", "stdin"), Forward("stdout", "s") >>
     ELSE UNCHANGED << fds, fwd >>
  /\ UNCHANGED store_rest

\* The shell exits: its stdout is at its end, nobody reads its stdin.
ShellExits ==
  /\ fwd # << >>
  /\ fds["stdout"].open /\ ~fds["stdout"].eof
  /\ fds' = [fds EXCEPT !["stdout"].eof = TRUE, !["stdin"].err = TRUE]
  /\ UNCHANGED << listener, fwd, store_rest >>

\* write(fd2, data): sendall on a socket that is closed or broken raises;
\* for a descriptor, os.write is called only while data is left to
\* write, and the OSError of os.fsync is caught.
ShellWriteFails(fd, data) ==
  /\ ~fds[fd].open \/ fds[fd].err
  /\ fd = "s" \/ data # << >>

\* forward() of shell.py writes whatever it has read: there is no test of
\* data between the read and the write.
ShellRead(t) == ForwardRead(t, "write")
ShellWrite(t) == ForwardWrite(t, ShellWriteFails(fwd[t].fd2, fwd[t].data))

ShellForward(t) ==
  /\ t \in DOMAIN fwd
  /\ \/ ShellRead(t)
     \/ ShellWrite(t)
     \/ ForwardClose1(t)
     \/ ForwardClose2(t)

ShellNext ==
  \/ ShellAccept
  \/ \E t \in 1..2 : ShellForward(t)
  \/ \E fd \in {"s", "stdout"} : fwd # << >> /\ PeerSends(fd)
  \/ fwd # << >> /\ PeerCloses("s")
  \/ fwd # << >> /\ NetError("s")
  \/ ShellExits

SpecShell == ShellInit /\ [][ShellNext]_cve_vars

\* Each thread that can take a step takes one.
ShellFairness == \A t \in 1..2 : WF_cve_vars(ShellForward(t))
SpecShellFair == SpecShell /\ ShellFairness

\* ------------------------------------------- claims about the forwarders

\* The bytes 1, 2, ..., n.
Stream(n) == [i \in 1..n |-> i]

\* One end of a followed connection has closed, or the connection broke.
Disturbed(descriptors) ==
  /\ fwd # << >>
  /\ \E fd \in descriptors : fds[fd].eof \/ fds[fd].err

\* Every descriptor is closed and both threads have ended.
Finished(descriptors) ==
  /\ fwd # << >>
  /\ \A fd \in descriptors : ~fds[fd].open
  /\ \A t \in DOMAIN fwd : fwd[t].pc = "done"

\* What a thread has written is the beginning of what the other end has
\* sent, and while the thread is in its loop nothing is missing between
\* what it has written, what it holds and what waits to be read.
InOrder ==
  \A t \in DOMAIN fwd :
    LET src == fds[fwd[t].fd1]
        dst == fds[fwd[t].fd2]
    IN /\ Len(dst.got) <= src.sent
       /\ dst.got = Stream(Len(dst.got))
       /\ fwd[t].pc \in {"read", "test", "write"} =>
            dst.got \o fwd[t].data \o src.inbox = Stream(src.sent)

C30_ShellThreadsEnd ==
  (fwd # << >> /\ (fds["s"].eof \/ fds["stdout"].eof))
    ~> Finished(ShellFds)
=============================================================================
